---- MODULE Spec2Model ----
(***************************************************************************)
(* Verification model of the subtitle translation pipeline                 *)
(* (translator/agents/workflow.py and translator/services/subtitle).       *)
(*                                                                         *)
(* Texts are modelled by what the parser makes of them: a text is a kind   *)
(* ("srt": parses directly, "wrapped": SRT blocks behind a non-SRT         *)
(* preamble or inside a fence, "junk": nothing parses) together with its   *)
(* serialized blocks.  Times are integers (milliseconds up to scaling).    *)
(***************************************************************************)
EXTENDS Integers, Sequences, FiniteSets, TLC

\* ------------------------------------------------------------------------
\* Bounds
\* ------------------------------------------------------------------------
MaxRuns == 2

\* ------------------------------------------------------------------------
\* Subtitle entity and format codec (parser.py)
\* ------------------------------------------------------------------------
None == -1

Subtitle(index, start, end, content, proprietary) ==
    [index |-> index, start |-> start, end |-> end,
     content |-> content, proprietary |-> proprietary]

Min(a, b) == IF a <= b THEN a ELSE b

\* Subtitle.__lt__: order by (start, end, index)
SubLess(a, b) ==
    \/ a.start < b.start
    \/ a.start = b.start /\ a.end < b.end
    \/ a.start = b.start /\ a.end = b.end /\ a.index < b.index

RECURSIVE InsertSorted(_, _)
InsertSorted(s, x) ==
    IF s = <<>> THEN <<x>>
    ELSE IF SubLess(x, Head(s)) THEN <<x>> \o s
    ELSE <<Head(s)>> \o InsertSorted(Tail(s), x)

\* sorted(subtitles): stable, ascending by SubLess
RECURSIVE SortSubs(_)
SortSubs(s) ==
    IF s = <<>> THEN <<>>
    ELSE InsertSorted(SortSubs(SubSeq(s, 1, Len(s) - 1)), s[Len(s)])

\* Subtitle.to_srt: the serialized block; a missing index is written as 0
to_srt(sub) ==
    [idx |-> IF sub.index = None THEN 0 ELSE sub.index,
     start |-> sub.start, end |-> sub.end,
     prop |-> sub.proprietary, content |-> sub.content]

NoText == [kind |-> "none", blocks |-> <<>>]
JunkText == [kind |-> "junk", blocks |-> <<>>]
SrtText(blocks) == [kind |-> "srt", blocks |-> blocks]
WrappedText(blocks) == [kind |-> "wrapped", blocks |-> blocks]

\* SubtitleParser.compose with reindex=True (the default every caller uses)
compose(subtitles) ==
    LET sorted == SortSubs(subtitles)
    IN SrtText([k \in 1..Len(sorted) |->
                   to_srt([sorted[k] EXCEPT !.index = k])])

\* SubtitleParser.parse raises SRTParseError unless the matches are contiguous
\* from offset 0: only a text of kind "srt" parses
parse_raises(text) == text.kind # "srt"

\* SubtitleParser.parse on a text that parses: one Subtitle per block
parse(text) ==
    [k \in 1..Len(text.blocks) |->
        Subtitle(text.blocks[k].idx, text.blocks[k].start, text.blocks[k].end,
                 text.blocks[k].content, text.blocks[k].prop)]

\* ------------------------------------------------------------------------
\* Output extraction (workflow.py)
\* ------------------------------------------------------------------------
\* SubtitleWorkflow.is_valid_srt_format: the direct parse, else the parse
\* from the first block start, else the parse of a fenced block's interior
is_valid_srt_format(content) ==
    /\ content.kind \in {"srt", "wrapped"}
    /\ Len(content.blocks) > 0

\* SubtitleWorkflow._extract_valid_srt: <<is_valid, srt_content_or_original>>.
\* A positive is_valid_srt_format returns the content as received; the two
\* extraction attempts that follow run only after a negative answer, on a
\* content in which is_valid_srt_format found nothing to parse.
_extract_valid_srt(content) ==
    IF is_valid_srt_format(content)
    THEN <<TRUE, content>>
    ELSE <<FALSE, content>>

\* or_pre_call_content without the fallback: the agent's text is kept
or_agent_content(extracted, pre_call) == extracted[2]

\* "if not is_valid: proofed_content = chunk_srt" and
\* "if not is_valid: translated_content = proofed_content": the stage yields
\* the extracted text, or the content it was called with
or_pre_call_content(extracted, pre_call) ==
    IF extracted[1] THEN extracted[2] ELSE pre_call

\* ------------------------------------------------------------------------
\* Inputs of a run: what SrtService.split returns for the input file, and
\* what the proofing and translation agents may answer
\* ------------------------------------------------------------------------
DocA ==
    << <<Subtitle(1, 0, 1, "a.", ""), Subtitle(None, 1, 3, "b c.", "")>>,
       <<Subtitle(4, 3, 4, "d.", "X1")>> >>

\* DocA with the second entry retimed
DocB ==
    << <<Subtitle(1, 0, 1, "a.", ""), Subtitle(None, 2, 3, "b c.", "")>>,
       <<Subtitle(4, 3, 4, "d.", "X1")>> >>

\* a one-chunk document
DocC ==
    << <<Subtitle(1, 0, 1, "a.", "")>> >>

Docs == {DocA, DocB, DocC}

ChunkIndices == UNION {DOMAIN d : d \in Docs}

OutContents == <<"t1", "t2", "t3">>

\* the original entries with translated content
GoodBlocks(orig) ==
    [k \in 1..Len(orig) |->
        to_srt([orig[k] EXCEPT !.content = OutContents[k]])]

\* translated content, but every index, timestamp and proprietary changed
ShiftedBlocks(orig) ==
    [k \in 1..Len(orig) |->
        to_srt(Subtitle(orig[k].index + 10, orig[k].start + 1,
                        orig[k].end + 1, OutContents[k], "Z"))]

ShortBlocks(orig) == SubSeq(ShiftedBlocks(orig), 1, Len(orig) - 1)

LongBlocks(orig) ==
    Append(ShiftedBlocks(orig),
           to_srt(Subtitle(Len(orig) + 11, orig[Len(orig)].end + 1,
                           orig[Len(orig)].end + 2,
                           OutContents[Len(orig) + 1], "Z")))

\* the answers an agent may give for a chunk whose parsed original is orig
AgentTexts(orig) ==
    {SrtText(GoodBlocks(orig)), SrtText(ShiftedBlocks(orig)),
     SrtText(LongBlocks(orig)), WrappedText(GoodBlocks(orig)), JunkText}
    \cup (IF Len(orig) > 1 THEN {SrtText(ShortBlocks(orig))} ELSE {})

\* ------------------------------------------------------------------------
\* State
\* ------------------------------------------------------------------------
VARIABLES
    run,                 \* number of the current run of arun
    pc,                  \* position of the run in _arun_impl / _process_chunk
    chunks,              \* result of srt_service.split
    i,                   \* loop index of "for i, chunk in enumerate(chunks, 1)"
    cache,               \* chunk index -> text of chunk_NNNN.<lang>.srt
    cached,              \* local cached
    cache_outcome,       \* branch taken by the cache lookup of chunk i
    processed_srt,       \* local processed_srt
    processed_chunk,     \* local processed_chunk
    retry_srt,           \* local retry_srt
    ctx,                 \* call site of the running _process_chunk
    proofed_content,     \* local proofed_content of _process_chunk
    repaired,            \* chunk i was mapped back onto the original entries
    processed_subtitles, \* the output accumulator
    events,              \* the RunResponse stream of the run
    out_file,            \* text written to the output file by this run
    n_proof,             \* proofing calls made for chunk i
    n_trans,             \* translation calls made for chunk i
    trans_raised,        \* a translation call of this run raised
    agent_out,           \* proof.content / translated.content of the last
                         \* agent call for chunk i, Raised if it raised
    n_put_raised         \* calls of save_processed_chunk that raised, this run

wvars == <<run, pc, chunks, i, cache, cached, cache_outcome, processed_srt,
           processed_chunk, retry_srt, ctx, proofed_content, repaired,
           processed_subtitles, events, out_file, n_proof, n_trans,
           trans_raised, agent_out, n_put_raised>>

VARIABLES
    subtitles,           \* argument subtitles of split_subtitles
    max_tokens,          \* argument max_tokens of split_subtitles
    pos,                 \* number of subtitles the loop has consumed
    split_chunks,        \* local chunks of split_subtitles
    current_chunk,       \* local current_chunk
    pending_subs,        \* local pending_subs
    spc                  \* position of split_subtitles

svars == <<subtitles, max_tokens, pos, split_chunks, current_chunk,
           pending_subs, spc>>

VARIABLES
    linesep,             \* os.linesep of the platform
    dirs,                \* the directories that exist
    files,               \* path -> the file at that path
    manifests,           \* directory -> its manifest.json
    ppc,                 \* position of the running save_processed_chunk
    put_args,            \* arguments of the running save_processed_chunk
    n_put,               \* calls of save_processed_chunk so far
    last_put,            \* key -> srt_text of the last call that returned
    put_keys,            \* keys save_processed_chunk was called with
    interrupted          \* keys of the calls that did not return

cvars == <<linesep, dirs, files, manifests, ppc, put_args, n_put, last_put,
           put_keys, interrupted>>

VARIABLES
    m_subtitles,         \* argument subtitles of merge
    max_pause,           \* argument max_pause of merge
    punct_end,           \* argument punct_end of merge
    max_dur,             \* argument max_dur of merge
    sorted_subtitles,    \* local sorted_subtitles
    mpos,                \* entries of sorted_subtitles taken so far
    current_subtitle,    \* local current_subtitle
    merged_subtitles,    \* local merged_subtitles
    joins,               \* the k for which entry k + 1 of sorted_subtitles
                         \* was merged onto entry k
    mpc                  \* position of merge

mvars == <<m_subtitles, max_pause, punct_end, max_dur, sorted_subtitles,
           mpos, current_subtitle, merged_subtitles, joins, mpc>>

VARIABLES
    k_subtitles,         \* argument subtitles of compose
    reindex,             \* argument reindex of compose
    start_index,         \* argument start_index of compose
    composed,            \* what compose gave: the blocks of the text it
                         \* returned, or the TypeError it raised
    kpc                  \* position of compose

kvars == <<k_subtitles, reindex, start_index, composed, kpc>>

VARIABLES
    timestamp_in,        \* the timedelta handed to _format_timestamp
    timestamp_text,      \* the text _format_timestamp returned
    timestamp_out,       \* what _parse_timestamp made of that text
    tpc                  \* position of the format/parse round

tvars == <<timestamp_in, timestamp_text, timestamp_out, tpc>>

VARIABLES
    given_subtitles,     \* the entries handed to compose, <<>> when parse
                         \* is given a text as such
    srt_data,            \* argument srt_data of parse
    ignore_errors,       \* argument ignore_errors of parse
    parse_out,           \* what parse returned, or the error it raised
    rpc                  \* position of the compose/parse round

pvars == <<given_subtitles, srt_data, ignore_errors, parse_out, rpc>>

VARIABLES
    in_file,             \* the text of the input file at file_path
    merged_file,         \* the file <stem>_merged beside it
    file_max_tokens,     \* argument max_tokens of SrtService.split
    source_path,         \* the file the last call of split read
    split_out,           \* what the last call of split returned or raised
    split_calls,         \* number of calls of split so far
    fpc                  \* position of the service

fvars == <<in_file, merged_file, file_max_tokens, source_path, split_out,
           split_calls, fpc>>

vars == <<wvars, svars, cvars, mvars, kvars, tvars, pvars, fvars>>

\* what an action of one component leaves alone
outside_workflow == <<svars, cvars, mvars, kvars, tvars, pvars, fvars>>
outside_splitter == <<wvars, cvars, mvars, kvars, tvars, pvars, fvars>>
outside_cache == <<wvars, svars, mvars, kvars, tvars, pvars, fvars>>
outside_merger == <<wvars, svars, cvars, kvars, tvars, pvars, fvars>>
outside_composer == <<wvars, svars, cvars, mvars, tvars, pvars, fvars>>
outside_timestamps == <<wvars, svars, cvars, mvars, kvars, pvars, fvars>>
outside_parser == <<wvars, svars, cvars, mvars, kvars, tvars, fvars>>
outside_service == <<wvars, svars, cvars, mvars, kvars, tvars, pvars>>

Ended == {"success", "terminated", "crashed"}

\* what agent_out holds when "await get_proofer().arun(...)" or
\* "await get_translator().arun(...)" raised instead of returning
Raised == [kind |-> "raised", blocks |-> <<>>]

\* RunResponse(content=..., run_id=...): no call of _arun_impl passes error
RunResponse(content, chunk) ==
    [content |-> content, chunk |-> chunk, error |-> FALSE]

\* chunk_srt = parser.compose(chunk)
chunk_srt == compose(chunks[i])

\* orig_parsed = parser.parse(chunk_srt)
orig_parsed == parse(chunk_srt)

original_count == Len(orig_parsed)

\* ------------------------------------------------------------------------
\* Splitter (splitter.py) and connector (connector.py)
\* ------------------------------------------------------------------------
MaxSubs == 4
MaxTokens == 4

SplitContents == {"a", "a.", "bb", "bb.", "dddd."}

\* the tokenizer is an external capability: the serialized form of an entry
\* costs a fixed number of tokens and the cost of a concatenation is the sum
TokenCost(content) ==
    CASE content \in {"a", "a."} -> 1
      [] content \in {"bb", "bb."} -> 2
      [] content = "dddd." -> 4
      [] OTHER -> 1

RECURSIVE SumTokens(_)
SumTokens(subs) ==
    IF subs = <<>> THEN 0
    ELSE TokenCost(Head(subs).content) + SumTokens(Tail(subs))

\* self._count_tokens("".join(s.to_srt() for s in subs))
_count_tokens(subs) == SumTokens(subs)

\* content.strip() ends with one of . ? ! and their full-width forms
is_sentence_end(sub) == sub.content \in {"a.", "bb.", "dddd."}

\* "if sub_tokens > max_tokens"
oversized(sub, limit) == _count_tokens(<<sub>>) > limit

\* fits with the comparison off by one token
fits_off_by_one(subs, limit) == _count_tokens(subs) <= limit + 1

\* "if all_tokens <= max_tokens" and "if pending_tokens <= max_tokens"
fits(subs, limit) == _count_tokens(subs) <= limit

\* SubtitleConnector.connect
RECURSIVE connect(_)
connect(cs) ==
    IF cs = <<>> THEN <<>> ELSE Head(cs) \o connect(Tail(cs))

\* the loop "for p_sub in pending_subs" that splits an oversized pending
\* list.  aliased: current_chunk is still the list object that was appended
\* to chunks just before the loop, so current_chunk.append also changes that
\* chunk.  The result is <<chunks, current_chunk>>.
RECURSIVE split_pending(_, _, _, _, _)
split_pending(pending, cs, current, aliased, limit) ==
    IF pending = <<>> THEN <<cs, current>>
    ELSE IF current # <<>>
            /\ _count_tokens(current) + _count_tokens(<<Head(pending)>>)
                   > limit
    THEN split_pending(Tail(pending), Append(cs, current),
                       <<Head(pending)>>, FALSE, limit)
    ELSE split_pending(Tail(pending),
                       IF aliased
                       THEN [cs EXCEPT ![Len(cs)] =
                                Append(current, Head(pending))]
                       ELSE cs,
                       Append(current, Head(pending)), aliased, limit)

\* the subtitle lists split_subtitles may be called with: entry k has index k
\* and spans (k - 1, k)
SplitInputs ==
    UNION {[1..n -> {Subtitle(0, 0, 0, c, "") : c \in SplitContents}] :
              n \in 0..MaxSubs}

Numbered(seq) ==
    [k \in 1..Len(seq) |-> Subtitle(k, k - 1, k, seq[k].content, "")]

SInit ==
    /\ \E seq \in SplitInputs : subtitles = Numbered(seq)
    /\ max_tokens \in -1..MaxTokens
    /\ pos = 0
    /\ split_chunks = <<>>
    /\ current_chunk = <<>>
    /\ pending_subs = <<>>
    /\ spc = "entry"

SParked ==
    /\ subtitles = <<>>
    /\ max_tokens = 0
    /\ pos = 0
    /\ split_chunks = <<>>
    /\ current_chunk = <<>>
    /\ pending_subs = <<>>
    /\ spc = "parked"

\* "if not subtitles or max_tokens <= 0: return []"
SplitTrivial ==
    /\ UNCHANGED outside_splitter
    /\ spc = "entry"
    /\ subtitles = <<>> \/ max_tokens <= 0
    /\ spc' = "done"
    /\ UNCHANGED <<subtitles, max_tokens, pos, split_chunks, current_chunk,
                   pending_subs>>

SplitEnter ==
    /\ UNCHANGED outside_splitter
    /\ spc = "entry"
    /\ ~(subtitles = <<>> \/ max_tokens <= 0)
    /\ spc' = "loop"
    /\ UNCHANGED <<subtitles, max_tokens, pos, split_chunks, current_chunk,
                   pending_subs>>

\* StepOversized without the flush of what was accumulated before the entry
StepOversized_without_flush ==
    /\ UNCHANGED outside_splitter
    /\ spc = "loop"
    /\ pos < Len(subtitles)
    /\ oversized(subtitles[pos + 1], max_tokens)
    /\ split_chunks' = Append(split_chunks, <<subtitles[pos + 1]>>)
    /\ pos' = pos + 1
    /\ UNCHANGED <<subtitles, max_tokens, current_chunk, pending_subs, spc>>

\* loop body, "if sub_tokens > max_tokens": the entry becomes its own chunk
StepOversized ==
    /\ UNCHANGED outside_splitter
    /\ spc = "loop"
    /\ pos < Len(subtitles)
    /\ oversized(subtitles[pos + 1], max_tokens)
    /\ LET sub == subtitles[pos + 1]
           cs1 == IF pending_subs # <<>>
                  THEN Append(IF current_chunk # <<>>
                              THEN Append(split_chunks, current_chunk)
                              ELSE split_chunks,
                              pending_subs)
                  ELSE split_chunks
           cur1 == IF pending_subs # <<>> THEN <<>> ELSE current_chunk
           cs2 == IF cur1 # <<>> THEN Append(cs1, cur1) ELSE cs1
       IN split_chunks' = Append(cs2, <<sub>>)
    /\ current_chunk' = <<>>
    /\ pending_subs' = <<>>
    /\ pos' = pos + 1
    /\ UNCHANGED <<subtitles, max_tokens, spc>>

\* loop body, "if all_tokens <= max_tokens"
StepFits ==
    /\ UNCHANGED outside_splitter
    /\ spc = "loop"
    /\ pos < Len(subtitles)
    /\ ~oversized(subtitles[pos + 1], max_tokens)
    /\ LET sub == subtitles[pos + 1]
           pending == Append(pending_subs, sub)
       IN /\ fits(current_chunk \o pending, max_tokens)
          /\ IF is_sentence_end(sub)
             THEN /\ current_chunk' = current_chunk \o pending
                  /\ pending_subs' = <<>>
             ELSE /\ pending_subs' = pending
                  /\ UNCHANGED current_chunk
    /\ pos' = pos + 1
    /\ UNCHANGED <<subtitles, max_tokens, split_chunks, spc>>

\* loop body, the else branch: over the limit, a new chunk starts
StepOverflow ==
    /\ UNCHANGED outside_splitter
    /\ spc = "loop"
    /\ pos < Len(subtitles)
    /\ ~oversized(subtitles[pos + 1], max_tokens)
    /\ LET sub == subtitles[pos + 1]
           pending == Append(pending_subs, sub)
           cs1 == IF current_chunk # <<>>
                  THEN Append(split_chunks, current_chunk)
                  ELSE split_chunks
           looped == split_pending(pending, cs1, current_chunk,
                                   current_chunk # <<>>, max_tokens)
       IN /\ ~fits(current_chunk \o pending, max_tokens)
          /\ IF fits(pending, max_tokens)
             THEN IF is_sentence_end(sub)
                  THEN /\ split_chunks' = Append(cs1, pending)
                       /\ current_chunk' = <<>>
                  ELSE /\ split_chunks' = cs1
                       /\ current_chunk' = pending
             ELSE /\ split_chunks' = looped[1]
                  /\ current_chunk' = looped[2]
    /\ pending_subs' = <<>>
    /\ pos' = pos + 1
    /\ UNCHANGED <<subtitles, max_tokens, spc>>

\* SplitFinish without "if current_chunk": the last chunk is appended even
\* when it is empty
SplitFinish_unguarded ==
    /\ UNCHANGED outside_splitter
    /\ spc = "loop"
    /\ pos = Len(subtitles)
    /\ LET merge_rest == /\ current_chunk # <<>>
                         /\ fits(current_chunk \o pending_subs, max_tokens)
           cs1 == IF pending_subs # <<>> /\ ~merge_rest
                     /\ current_chunk # <<>>
                  THEN Append(split_chunks, current_chunk)
                  ELSE split_chunks
           cur1 == IF pending_subs = <<>> THEN current_chunk
                   ELSE IF merge_rest THEN current_chunk \o pending_subs
                   ELSE pending_subs
       IN /\ split_chunks' = Append(cs1, cur1)
          /\ current_chunk' = cur1
    /\ pending_subs' = <<>>
    /\ spc' = "done"
    /\ UNCHANGED <<subtitles, max_tokens, pos>>

\* after the loop: the remaining pending entries and the last chunk
SplitFinish ==
    /\ UNCHANGED outside_splitter
    /\ spc = "loop"
    /\ pos = Len(subtitles)
    /\ LET merge_rest == /\ current_chunk # <<>>
                         /\ fits(current_chunk \o pending_subs, max_tokens)
           cs1 == IF pending_subs # <<>> /\ ~merge_rest
                     /\ current_chunk # <<>>
                  THEN Append(split_chunks, current_chunk)
                  ELSE split_chunks
           cur1 == IF pending_subs = <<>> THEN current_chunk
                   ELSE IF merge_rest THEN current_chunk \o pending_subs
                   ELSE pending_subs
       IN /\ split_chunks' = IF cur1 # <<>> THEN Append(cs1, cur1) ELSE cs1
          /\ current_chunk' = cur1
    /\ pending_subs' = <<>>
    /\ spc' = "done"
    /\ UNCHANGED <<subtitles, max_tokens, pos>>

SNext ==
    \/ SplitTrivial
    \/ SplitEnter
    \/ StepOversized
    \/ StepFits
    \/ StepOverflow
    \/ SplitFinish

\* ------------------------------------------------------------------------
\* Merger (merger.py, SubtitleMerger.merge)
\* ------------------------------------------------------------------------
MaxMergeSubs == 3

\* the content of an entry of merge is its sequence of characters
MergeContents == {<<" ", "a">>, <<"a", ".", " ">>, <<" ">>}

\* the (start, end) an entry of merge may have
MergeTimes == {<<0, 1>>, <<1, 2>>, <<2, 3>>, <<0, 3>>}

\* the values of the keyword arguments of merge; punct_end as the set of its
\* characters, {} for punct_end=""
MaxPauses == {0, 1}
PunctEnds == {{}, {"."}}
MaxDurs == {2, 3}

Proprietaries == <<"p1", "p2", "p3", "p4", "p5">>

\* the lists merge may be called with: entry k has index k
MergeInputs ==
    UNION {[1..n -> MergeTimes \X MergeContents] : n \in 0..MaxMergeSubs}

MergeInput(seq) ==
    [k \in 1..Len(seq) |->
        Subtitle(k, seq[k][1][1], seq[k][1][2], seq[k][2], Proprietaries[k])]

\* str.strip on a content
RECURSIVE lstrip(_)
lstrip(content) ==
    IF content # <<>> /\ Head(content) = " " THEN lstrip(Tail(content))
    ELSE content

RECURSIVE rstrip(_)
rstrip(content) ==
    IF content # <<>> /\ content[Len(content)] = " "
    THEN rstrip(SubSeq(content, 1, Len(content) - 1))
    ELSE content

strip(content) == rstrip(lstrip(content))

\* sorted(subtitles, key=lambda s: s.start): stable
RECURSIVE InsertByStart(_, _)
InsertByStart(s, x) ==
    IF s = <<>> THEN <<x>>
    ELSE IF x.start < Head(s).start THEN <<x>> \o s
    ELSE <<Head(s)>> \o InsertByStart(Tail(s), x)

RECURSIVE SortByStart(_)
SortByStart(s) ==
    IF s = <<>> THEN <<>>
    ELSE InsertByStart(SortByStart(SubSeq(s, 1, Len(s) - 1)), s[Len(s)])

\* ends_with_sentence_punct for the content of current_subtitle
ends_with_sentence_punct(content, punct) ==
    /\ punct # {}
    /\ strip(content) # <<>>
    /\ strip(content)[Len(strip(content))] \in punct

\* should_merge without the punctuation test
should_merge_without_punct(current, next, pause, punct, dur) ==
    /\ next.start - current.end <= pause
    /\ next.end - current.start <= dur

\* should_merge with the pause compared strictly
should_merge_strict_pause(current, next, pause, punct, dur) ==
    /\ ~ends_with_sentence_punct(current.content, punct)
    /\ next.start - current.end < pause
    /\ next.end - current.start <= dur

\* should_merge of the loop body
should_merge(current, next, pause, punct, dur) ==
    /\ ~ends_with_sentence_punct(current.content, punct)
    /\ next.start - current.end <= pause
    /\ next.end - current.start <= dur

Max(a, b) == IF a >= b THEN a ELSE b

\* merged_subtitle with new_end taken from next_subtitle alone
merged_subtitle_end_of_next(current, next) ==
    Subtitle(None, current.start, next.end,
             strip(current.content) \o <<" ">> \o strip(next.content),
             current.proprietary)

\* merged_subtitle with the content of current_subtitle alone
merged_subtitle_drops_next(current, next) ==
    Subtitle(None, current.start, Max(current.end, next.end),
             strip(current.content), current.proprietary)

\* the Subtitle built when current_subtitle and next_subtitle are merged
merged_subtitle(current, next) ==
    Subtitle(None, current.start, Max(current.end, next.end),
             strip(current.content) \o <<" ">> \o strip(next.content),
             current.proprietary)

NoSubtitle == Subtitle(None, 0, 0, <<>>, "")

\* the loop "for next_subtitle in sorted_subtitles[1:]" and the append that
\* follows it, as a function of current_subtitle, the entries still to
\* come and merged_subtitles
RECURSIVE merge_loop(_, _, _, _, _, _)
merge_loop(current, rest, merged, pause, punct, dur) ==
    IF rest = <<>> THEN Append(merged, current)
    ELSE IF should_merge(current, Head(rest), pause, punct, dur)
    THEN merge_loop(merged_subtitle(current, Head(rest)), Tail(rest),
                    merged, pause, punct, dur)
    ELSE merge_loop(Head(rest), Tail(rest), Append(merged, current),
                    pause, punct, dur)

\* SubtitleMerger.merge as a function of its arguments
merge(subs, pause, punct, dur) ==
    IF subs = <<>> THEN <<>>
    ELSE merge_loop(SortByStart(subs)[1], Tail(SortByStart(subs)),
                    <<>>, pause, punct, dur)

MInit ==
    /\ \E seq \in MergeInputs : m_subtitles = MergeInput(seq)
    /\ max_pause \in MaxPauses
    /\ punct_end \in PunctEnds
    /\ max_dur \in MaxDurs
    /\ sorted_subtitles = <<>>
    /\ mpos = 0
    /\ current_subtitle = NoSubtitle
    /\ merged_subtitles = <<>>
    /\ joins = {}
    /\ mpc = "entry"

MParked ==
    /\ m_subtitles = <<>>
    /\ max_pause = 0
    /\ punct_end = {}
    /\ max_dur = 0
    /\ sorted_subtitles = <<>>
    /\ mpos = 0
    /\ current_subtitle = NoSubtitle
    /\ merged_subtitles = <<>>
    /\ joins = {}
    /\ mpc = "parked"

\* "if not subtitles: return []"
MergeEmpty ==
    /\ UNCHANGED outside_merger
    /\ mpc = "entry"
    /\ m_subtitles = <<>>
    /\ mpc' = "done"
    /\ UNCHANGED <<m_subtitles, max_pause, punct_end, max_dur,
                   sorted_subtitles, mpos, current_subtitle,
                   merged_subtitles, joins>>

\* the sort and "current_subtitle = sorted_subtitles[0]"
MergeEnter ==
    /\ UNCHANGED outside_merger
    /\ mpc = "entry"
    /\ m_subtitles # <<>>
    /\ sorted_subtitles' = SortByStart(m_subtitles)
    /\ current_subtitle' = SortByStart(m_subtitles)[1]
    /\ mpos' = 1
    /\ mpc' = "loop"
    /\ UNCHANGED <<m_subtitles, max_pause, punct_end, max_dur,
                   merged_subtitles, joins>>

\* loop body, "if should_merge": next_subtitle joins current_subtitle
MergeJoin ==
    /\ UNCHANGED outside_merger
    /\ mpc = "loop"
    /\ mpos < Len(sorted_subtitles)
    /\ should_merge(current_subtitle, sorted_subtitles[mpos + 1],
                    max_pause, punct_end, max_dur)
    /\ current_subtitle' =
          merged_subtitle(current_subtitle, sorted_subtitles[mpos + 1])
    /\ joins' = joins \cup {mpos}
    /\ mpos' = mpos + 1
    /\ UNCHANGED <<m_subtitles, max_pause, punct_end, max_dur,
                   sorted_subtitles, merged_subtitles, mpc>>

\* loop body, the else branch: current_subtitle is emitted
MergeFlush ==
    /\ UNCHANGED outside_merger
    /\ mpc = "loop"
    /\ mpos < Len(sorted_subtitles)
    /\ ~should_merge(current_subtitle, sorted_subtitles[mpos + 1],
                     max_pause, punct_end, max_dur)
    /\ merged_subtitles' = Append(merged_subtitles, current_subtitle)
    /\ current_subtitle' = sorted_subtitles[mpos + 1]
    /\ mpos' = mpos + 1
    /\ UNCHANGED <<m_subtitles, max_pause, punct_end, max_dur,
                   sorted_subtitles, joins, mpc>>

\* after the loop: "merged_subtitles.append(current_subtitle)"
MergeFinish ==
    /\ UNCHANGED outside_merger
    /\ mpc = "loop"
    /\ mpos = Len(sorted_subtitles)
    /\ merged_subtitles' = Append(merged_subtitles, current_subtitle)
    /\ mpc' = "done"
    /\ UNCHANGED <<m_subtitles, max_pause, punct_end, max_dur,
                   sorted_subtitles, mpos, current_subtitle, joins>>

MNext ==
    \/ MergeEmpty
    \/ MergeEnter
    \/ MergeJoin
    \/ MergeFlush
    \/ MergeFinish

\* ------------------------------------------------------------------------
\* Composer (parser.py, SubtitleParser.compose)
\* ------------------------------------------------------------------------
MaxComposeSubs == 3

\* the lists compose may be called with, as the <<<<start, end>>, index>> of
\* their entries
ComposeInputs ==
    UNION {[1..n -> {<<0, 1>>, <<1, 2>>} \X {None, 1, 2}] :
              n \in 0..MaxComposeSubs}

\* entry k has the k-th content
ComposeInput(seq) ==
    [k \in 1..Len(seq) |->
        Subtitle(seq[k][2], seq[k][1][1], seq[k][1][2],
                 <<"w", "x", "y", "z">>[k], "")]

\* Subtitle.__lt__(a, b): the comparison of the tuples (start, end, index).
\* The first unequal components decide; an index None against an integer
\* raises TypeError, two equal tuples are not less.
lt(a, b) ==
    IF a.start # b.start THEN (IF a.start < b.start THEN "lt" ELSE "ge")
    ELSE IF a.end # b.end THEN (IF a.end < b.end THEN "lt" ELSE "ge")
    ELSE IF a.index = b.index THEN "ge"
    ELSE IF a.index = None \/ b.index = None THEN "TypeError"
    ELSE IF a.index < b.index THEN "lt" ELSE "ge"

\* sorted(subtitles) compares as the list sort does for a short list: the
\* length of the run the list starts with, negative for a strictly
\* descending run, 0 when a comparison raised
RECURSIVE count_run(_, _, _)
count_run(s, n, descending) ==
    IF n = Len(s) THEN (IF descending THEN 0 - n ELSE n)
    ELSE LET c == lt(s[n + 1], s[n])
         IN IF c = "TypeError" THEN 0
            ELSE IF (c = "lt") = descending
            THEN count_run(s, n + 1, descending)
            ELSE IF descending THEN 0 - n ELSE n

\* the place of pivot in the sorted list s by bisection between l and r,
\* -1 when a comparison raised
RECURSIVE bisect(_, _, _, _)
bisect(s, pivot, l, r) ==
    IF l >= r THEN l
    ELSE LET p == l + ((r - l) \div 2)
             c == lt(pivot, s[p + 1])
         IN IF c = "TypeError" THEN -1
            ELSE IF c = "lt" THEN bisect(s, pivot, l, p)
            ELSE bisect(s, pivot, p + 1, r)

\* the binary insertion of the entries rest into the sorted list s
RECURSIVE binarysort(_, _)
binarysort(s, rest) ==
    IF rest = <<>> THEN [raised |-> FALSE, list |-> s]
    ELSE LET at == bisect(s, Head(rest), 0, Len(s))
         IN IF at = -1 THEN [raised |-> TRUE, list |-> <<>>]
            ELSE binarysort(SubSeq(s, 1, at) \o <<Head(rest)>>
                                \o SubSeq(s, at + 1, Len(s)),
                            Tail(rest))

\* sorted(subtitles): the sorted list, or raised when a comparison raised
py_sorted(s) ==
    IF Len(s) < 2 THEN [raised |-> FALSE, list |-> s]
    ELSE LET c == lt(s[2], s[1])
             n_run == IF c = "TypeError" THEN 0
                      ELSE count_run(s, 2, c = "lt")
             n == IF n_run < 0 THEN 0 - n_run ELSE n_run
         IN IF n_run = 0 THEN [raised |-> TRUE, list |-> <<>>]
            ELSE binarysort(IF n_run < 0
                            THEN [k \in 1..n |-> s[n + 1 - k]]
                            ELSE SubSeq(s, 1, n),
                            SubSeq(s, n + 1, Len(s)))

NotComposed == [raised |-> FALSE, blocks |-> <<>>]

KInit ==
    /\ \E seq \in ComposeInputs : k_subtitles = ComposeInput(seq)
    /\ reindex \in BOOLEAN
    /\ start_index \in {0, 1, 5}
    /\ composed = NotComposed
    /\ kpc = "entry"

KParked ==
    /\ k_subtitles = <<>>
    /\ reindex = FALSE
    /\ start_index = 0
    /\ composed = NotComposed
    /\ kpc = "parked"

\* "if reindex": new entries numbered from start_index in sorted order
ComposeReindexed ==
    /\ UNCHANGED outside_composer
    /\ kpc = "entry"
    /\ reindex
    /\ ~py_sorted(k_subtitles).raised
    /\ LET sorted == py_sorted(k_subtitles).list
       IN composed' =
             [raised |-> FALSE,
              blocks |-> [k \in 1..Len(sorted) |->
                             to_srt([sorted[k] EXCEPT
                                        !.index = start_index + k - 1])]]
    /\ kpc' = "done"
    /\ UNCHANGED <<k_subtitles, reindex, start_index>>

\* "if reindex", and a comparison of sorted(subtitles) raises TypeError
ComposeRaises ==
    /\ UNCHANGED outside_composer
    /\ kpc = "entry"
    /\ reindex
    /\ py_sorted(k_subtitles).raised
    /\ composed' = [raised |-> TRUE, blocks |-> <<>>]
    /\ kpc' = "done"
    /\ UNCHANGED <<k_subtitles, reindex, start_index>>

\* "else: subtitles_to_compose = subtitles"
ComposeAsGiven ==
    /\ UNCHANGED outside_composer
    /\ kpc = "entry"
    /\ ~reindex
    /\ composed' =
          [raised |-> FALSE,
           blocks |-> [k \in 1..Len(k_subtitles) |-> to_srt(k_subtitles[k])]]
    /\ kpc' = "done"
    /\ UNCHANGED <<k_subtitles, reindex, start_index>>

KNext ==
    \/ ComposeReindexed
    \/ ComposeRaises
    \/ ComposeAsGiven

\* ------------------------------------------------------------------------
\* Chunk cache (SrtService: _chunks_dir, get_processed_chunk,
\* save_processed_chunk, load_manifest, save_manifest)
\* ------------------------------------------------------------------------
MaxPuts == 2

\* a path is its parent, the parts of its stem and its suffix
CacheDocs ==
    {[parent |-> "d", stem |-> <<"in">>, suffix |-> ".srt"],
     [parent |-> "d", stem |-> <<"other">>, suffix |-> ".srt"]}

CacheIndices == {1, 2}

CacheLangs == {"zh", "en"}

\* the keys of the cache calls (file_path, chunk_index, target_lang): one
\* key and every key that differs from it in one component
Keys ==
    LET base == [file_path |-> [parent |-> "d", stem |-> <<"in">>,
                                suffix |-> ".srt"],
                 chunk_index |-> 1, target_lang |-> "zh"]
    IN {k \in [file_path : CacheDocs, chunk_index : CacheIndices,
               target_lang : CacheLangs] :
           Cardinality({f \in {"file_path", "chunk_index", "target_lang"} :
                           k[f] # base[f]}) <= 1}

\* a text is its sequence of characters
CR == "CR"
LF == "LF"

CacheTexts == {<<"a", LF>>, <<"b", LF>>, <<"a", CR, LF>>}

\* p.with_stem(f"{p.stem}_chunks")
_chunks_dir(file_path) ==
    [file_path EXCEPT !.stem = Append(file_path.stem, "_chunks")]

\* _chunk_file with the target language left out of the name
_chunk_file_without_lang(k) ==
    [dir |-> _chunks_dir(k.file_path),
     name |-> [chunk_index |-> k.chunk_index, target_lang |-> "",
               suffix |-> ".srt"]]

\* d / f"chunk_{chunk_index:04d}.{target_lang}.srt"
_chunk_file(k) ==
    [dir |-> _chunks_dir(k.file_path),
     name |-> [chunk_index |-> k.chunk_index, target_lang |-> k.target_lang,
               suffix |-> ".srt"]]

\* Path.with_suffix
with_suffix(path, suffix) == [path EXCEPT !.name.suffix = suffix]

\* tmp = fpath.with_suffix(".tmp")
_tmp_file(k) == with_suffix(_chunk_file(k), ".tmp")

CachePaths == {_chunk_file(k) : k \in Keys} \cup {_tmp_file(k) : k \in Keys}

NoFile == [exists |-> FALSE, data |-> <<>>]
File(data) == [exists |-> TRUE, data |-> data]

\* open(..., "w", encoding="utf-8").write: every "\n" becomes os.linesep
RECURSIVE write_text(_, _)
write_text(text, sep) ==
    IF text = <<>> THEN <<>>
    ELSE (IF Head(text) = LF THEN sep ELSE <<Head(text)>>)
             \o write_text(Tail(text), sep)

\* open(..., "r", encoding="utf-8").read: "\r\n" and "\r" become "\n"
RECURSIVE read_text(_)
read_text(data) ==
    IF data = <<>> THEN <<>>
    ELSE IF Head(data) = CR
    THEN <<LF>> \o read_text(IF Len(data) > 1 /\ data[2] = LF
                             THEN Tail(Tail(data))
                             ELSE Tail(data))
    ELSE <<Head(data)>> \o read_text(Tail(data))

\* the result of get_processed_chunk: None, or the text read
NotCached == [found |-> FALSE, text |-> <<>>]
Cached(text) == [found |-> TRUE, text |-> text]

get_processed_chunk(k) ==
    IF _chunks_dir(k.file_path) \notin dirs THEN NotCached
    ELSE IF ~files[_chunk_file(k)].exists THEN NotCached
    ELSE Cached(read_text(files[_chunk_file(k)].data))

\* load_manifest: {} when manifest.json is missing
NoManifest == [exists |-> FALSE, chunks |-> <<>>]
NoRecord == [lang |-> "", saved_at |-> 0]

load_manifest(file_path) ==
    IF manifests[_chunks_dir(file_path)].exists
    THEN manifests[_chunks_dir(file_path)].chunks
    ELSE [n \in CacheIndices |-> NoRecord]

\* manifest["chunks"][str(chunk_index)] = {"lang": ..., "saved_at": ...}
with_record(chunks_of_manifest, k, now) ==
    [chunks_of_manifest EXCEPT ![k.chunk_index] =
        [lang |-> k.target_lang, saved_at |-> now]]

NoCall == [key |-> [file_path |-> [parent |-> "", stem |-> <<>>,
                                   suffix |-> ""],
                    chunk_index |-> 0, target_lang |-> ""],
           srt_text |-> <<>>]

NoPut == [done |-> FALSE, text |-> <<>>]

CInit ==
    /\ linesep \in {<<LF>>, <<CR, LF>>}
    /\ dirs = {}
    /\ files = [path \in CachePaths |-> NoFile]
    /\ manifests = [d \in {_chunks_dir(doc) : doc \in CacheDocs} |->
                       NoManifest]
    /\ ppc = "idle"
    /\ put_args = NoCall
    /\ n_put = 0
    /\ last_put = [k \in Keys |-> NoPut]
    /\ put_keys = {}
    /\ interrupted = {}

\* the cache at rest while another component is examined: nothing on disk,
\* no call
CParked ==
    /\ linesep = <<LF>>
    /\ dirs = {}
    /\ files = <<>>
    /\ manifests = <<>>
    /\ ppc = "parked"
    /\ put_args = <<>>
    /\ n_put = 0
    /\ last_put = <<>>
    /\ put_keys = {}
    /\ interrupted = {}

\* save_processed_chunk is called; d.mkdir(parents=True, exist_ok=True)
PutBegin ==
    /\ UNCHANGED outside_cache
    /\ ppc = "idle"
    /\ n_put < MaxPuts
    /\ \E k \in Keys, text \in CacheTexts :
          /\ put_args' = [key |-> k, srt_text |-> text]
          /\ dirs' = dirs \cup {_chunks_dir(k.file_path)}
          /\ put_keys' = put_keys \cup {k}
    /\ n_put' = n_put + 1
    /\ ppc' = "open"
    /\ UNCHANGED <<linesep, files, manifests, last_put, interrupted>>

\* aiofiles.open(tmp, "w"): the temp file is created or truncated
PutOpenTmp ==
    /\ UNCHANGED outside_cache
    /\ ppc = "open"
    /\ files' = [files EXCEPT ![_tmp_file(put_args.key)] = File(<<>>)]
    /\ ppc' = "write"
    /\ UNCHANGED <<linesep, dirs, manifests, put_args, n_put, last_put,
                   put_keys, interrupted>>

\* PutWriteTmp writing into the chunk file itself
PutWriteTmp_in_place ==
    /\ UNCHANGED outside_cache
    /\ ppc = "write"
    /\ LET tmp == _tmp_file(put_args.key)
           data == write_text(put_args.srt_text, linesep)
           n == Len(files[tmp].data)
       IN /\ files' = [files EXCEPT
                          ![tmp] = File(SubSeq(data, 1, n + 1)),
                          ![_chunk_file(put_args.key)] =
                              File(SubSeq(data, 1, n + 1))]
          /\ ppc' = IF n + 1 = Len(data) THEN "replace" ELSE "write"
    /\ UNCHANGED <<linesep, dirs, manifests, put_args, n_put, last_put,
                   put_keys, interrupted>>

\* f.write(srt_text) up to the close of the temp file: the characters reach
\* the temp file one after the other
PutWriteTmp ==
    /\ UNCHANGED outside_cache
    /\ ppc = "write"
    /\ LET tmp == _tmp_file(put_args.key)
           data == write_text(put_args.srt_text, linesep)
           n == Len(files[tmp].data)
       IN /\ files' = [files EXCEPT ![tmp] = File(SubSeq(data, 1, n + 1))]
          /\ ppc' = IF n + 1 = Len(data) THEN "replace" ELSE "write"
    /\ UNCHANGED <<linesep, dirs, manifests, put_args, n_put, last_put,
                   put_keys, interrupted>>

\* aiofiles.os.replace(str(tmp), str(fpath))
PutReplace ==
    /\ UNCHANGED outside_cache
    /\ ppc = "replace"
    /\ files' = [files EXCEPT
                    ![_chunk_file(put_args.key)] =
                        files[_tmp_file(put_args.key)],
                    ![_tmp_file(put_args.key)] = NoFile]
    /\ ppc' = "manifest"
    /\ UNCHANGED <<linesep, dirs, manifests, put_args, n_put, last_put,
                   put_keys, interrupted>>

\* load_manifest, the new record, save_manifest (its own temp file and
\* replace), and the return of save_processed_chunk
PutUpdateManifest ==
    /\ UNCHANGED outside_cache
    /\ ppc = "manifest"
    /\ manifests' =
          [manifests EXCEPT ![_chunks_dir(put_args.key.file_path)] =
              [exists |-> TRUE,
               chunks |-> with_record(load_manifest(put_args.key.file_path),
                                      put_args.key, n_put)]]
    /\ last_put' = [last_put EXCEPT ![put_args.key] =
                       [done |-> TRUE, text |-> put_args.srt_text]]
    /\ put_args' = NoCall
    /\ ppc' = "idle"
    /\ UNCHANGED <<linesep, dirs, files, n_put, put_keys, interrupted>>

\* the call ends at this point (an exception of the I/O, or the process is
\* stopped): what is on disk stays
PutInterrupted ==
    /\ UNCHANGED outside_cache
    /\ ppc \in {"open", "write", "replace", "manifest"}
    /\ interrupted' = interrupted \cup {put_args.key}
    /\ put_args' = NoCall
    /\ ppc' = "idle"
    /\ UNCHANGED <<linesep, dirs, files, manifests, n_put, last_put,
                   put_keys>>

CNext ==
    \/ PutBegin
    \/ PutOpenTmp
    \/ PutWriteTmp
    \/ PutReplace
    \/ PutUpdateManifest
    \/ PutInterrupted

\* ------------------------------------------------------------------------
\* Timestamps (parser.py, Subtitle._format_timestamp and
\* SubtitleParser._parse_timestamp)
\* ------------------------------------------------------------------------
MaxDays == 4

\* the hour of the day, minute, second and millisecond of the durations
TsHours == {0, 1, 23}
TsMinutes == {0, 59}
TsSeconds == {0, 59}
TsMillis == {0, 1, 999}

SECONDS_IN_HOUR == 3600
SECONDS_IN_MINUTE == 60
HOURS_IN_DAY == 24
MICROSECONDS_IN_MILLISECOND == 1000

\* the milliseconds of a day, for the normalisation timedelta does
MILLISECONDS_IN_DAY == HOURS_IN_DAY * SECONDS_IN_HOUR * 1000

\* datetime.timedelta(hours=, minutes=, seconds=, milliseconds=): the
\* normalised days, seconds and microseconds
timedelta(hours, minutes, seconds, milliseconds) ==
    LET total == ((hours * 60 + minutes) * 60 + seconds) * 1000 + milliseconds
    IN [days |-> total \div MILLISECONDS_IN_DAY,
        seconds |-> (total % MILLISECONDS_IN_DAY) \div 1000,
        microseconds |-> (total % 1000) * 1000]

DigitChars == <<"0", "1", "2", "3", "4", "5", "6", "7", "8", "9">>

\* the decimal digits of a natural number
RECURSIVE decimal(_)
decimal(n) ==
    IF n < 10 THEN <<DigitChars[n + 1]>>
    ELSE Append(decimal(n \div 10), DigitChars[(n % 10) + 1])

\* format specification 0<width>d
zero_padded(n, width) ==
    [k \in 1..(width - Len(decimal(n))) |-> "0"] \o decimal(n)

\* _format_timestamp without "hrs += days * HOURS_IN_DAY"
_format_timestamp_without_days(td) ==
    LET hrs == td.seconds \div SECONDS_IN_HOUR
        secs_remainder == td.seconds % SECONDS_IN_HOUR
        mins == secs_remainder \div SECONDS_IN_MINUTE
        secs == secs_remainder % SECONDS_IN_MINUTE
        msecs == td.microseconds \div MICROSECONDS_IN_MILLISECOND
    IN zero_padded(hrs, 2) \o <<":">> \o zero_padded(mins, 2) \o <<":">>
           \o zero_padded(secs, 2) \o <<",">> \o zero_padded(msecs, 3)

\* Subtitle._format_timestamp
_format_timestamp(td) ==
    LET hrs == td.seconds \div SECONDS_IN_HOUR + td.days * HOURS_IN_DAY
        secs_remainder == td.seconds % SECONDS_IN_HOUR
        mins == secs_remainder \div SECONDS_IN_MINUTE
        secs == secs_remainder % SECONDS_IN_MINUTE
        msecs == td.microseconds \div MICROSECONDS_IN_MILLISECOND
    IN zero_padded(hrs, 2) \o <<":">> \o zero_padded(mins, 2) \o <<":">>
           \o zero_padded(secs, 2) \o <<",">> \o zero_padded(msecs, 3)

\* RGX_TIMESTAMP_MAGNITUDE_DELIM, its ASCII members
MagnitudeDelims == {",", ".", ":"}

\* the runs of characters between the delimiters of a text
RECURSIVE split_fields(_)
split_fields(text) ==
    IF text = <<>> THEN << <<>> >>
    ELSE LET rest == split_fields(Tail(text))
         IN IF Head(text) \in MagnitudeDelims THEN << <<>> >> \o rest
            ELSE << <<Head(text)>> \o rest[1] >> \o Tail(rest)

IsDigit(c) == \E d \in DOMAIN DigitChars : DigitChars[d] = c

\* TS_REGEX.match: three fields of digits between single delimiters, then
\* an optional delimiter and an optional fourth field of digits
ts_match(text) ==
    /\ \A k \in DOMAIN text : IsDigit(text[k]) \/ text[k] \in MagnitudeDelims
    /\ Len(split_fields(text)) \in {3, 4}
    /\ \A k \in 1..3 : split_fields(text)[k] # <<>>

\* int() of a field of digits
RECURSIVE int(_)
int(digits) ==
    IF digits = <<>> THEN 0
    ELSE 10 * int(SubSeq(digits, 1, Len(digits) - 1))
           + (CHOOSE d \in 0..9 : DigitChars[d + 1] = digits[Len(digits)])

\* SubtitleParser._parse_timestamp: the timedelta, or TimestampParseError
_parse_timestamp(text) ==
    IF ~ts_match(text)
    THEN [raised |-> TRUE, value |-> timedelta(0, 0, 0, 0)]
    ELSE LET f == split_fields(text)
         IN [raised |-> FALSE,
             value |-> timedelta(int(f[1]), int(f[2]), int(f[3]),
                                 IF Len(f) = 4 THEN int(f[4]) ELSE 0)]

NotParsed == [raised |-> FALSE, value |-> timedelta(0, 0, 0, 0)]

TInit ==
    /\ \E d \in 0..MaxDays, h \in TsHours, m \in TsMinutes, sec \in TsSeconds,
          ms \in TsMillis :
          timestamp_in = timedelta(24 * d + h, m, sec, ms)
    /\ timestamp_text = <<>>
    /\ timestamp_out = NotParsed
    /\ tpc = "given"

TParked ==
    /\ timestamp_in = timedelta(0, 0, 0, 0)
    /\ timestamp_text = <<>>
    /\ timestamp_out = NotParsed
    /\ tpc = "parked"

FormatTimestamp ==
    /\ UNCHANGED outside_timestamps
    /\ tpc = "given"
    /\ timestamp_text' = _format_timestamp(timestamp_in)
    /\ tpc' = "formatted"
    /\ UNCHANGED <<timestamp_in, timestamp_out>>

ParseTimestamp ==
    /\ UNCHANGED outside_timestamps
    /\ tpc = "formatted"
    /\ timestamp_out' = _parse_timestamp(timestamp_text)
    /\ tpc' = "parsed"
    /\ UNCHANGED <<timestamp_in, timestamp_text>>

TNext ==
    \/ FormatTimestamp
    \/ ParseTimestamp

\* ------------------------------------------------------------------------
\* Text codec (parser.py: Subtitle.to_srt, SubtitleParser.compose with
\* reindex=False, SRT_REGEX, SubtitleParser.parse, _check_continuity)
\*
\* A text is its sequence of characters.  SRT_REGEX is read line by line:
\* the text is cut at its line feeds, and what the pattern does with a line
\* is decided from the line's characters.  The reading covers texts whose
\* lines hold no carriage return, no blank other than the space, and in
\* which a line that is neither an index nor a timestamp line does not end
\* with a digit (a match starts at a line feed or at the start of the text,
\* or behind a leading byte-order mark).
\* ------------------------------------------------------------------------
MaxParseSubs == 2
MaxSegments == 3

NL == "\n"

\* the character U+FEFF
BOM == "BOM"

\* str.split("\n")
RECURSIVE split_lines(_)
split_lines(text) ==
    LET feeds == {k \in DOMAIN text : text[k] = NL}
        first == CHOOSE k \in feeds : \A other \in feeds : k <= other
    IN IF feeds = {} THEN <<text>>
       ELSE <<SubSeq(text, 1, first - 1)>>
                \o split_lines(SubSeq(text, first + 1, Len(text)))

\* "\n".join(lines)
RECURSIVE join_lines(_)
join_lines(lines) ==
    IF lines = <<>> THEN <<>>
    ELSE IF Len(lines) = 1 THEN lines[1]
    ELSE lines[1] \o <<NL>> \o join_lines(Tail(lines))

\* the lines of a content, each stripped
stripped_lines(content) ==
    [k \in DOMAIN split_lines(content) |-> strip(split_lines(content)[k])]

\* Subtitle._clean_content: lines stripped, empty lines dropped
_clean_content(content) ==
    join_lines(SelectSeq(stripped_lines(content), LAMBDA line : line # <<>>))

\* str() of an integer
str_int(n) == IF n < 0 THEN <<"-">> \o decimal(-n) ELSE decimal(n)

Arrow == <<" ", "-", "-", ">", " ">>

\* Subtitle.to_srt(strict=True, eol="\n"): the characters of the block
to_srt_text(sub) ==
    str_int(IF sub.index = None THEN 0 ELSE sub.index) \o <<NL>>
        \o _format_timestamp(sub.start) \o Arrow \o _format_timestamp(sub.end)
        \o (IF sub.proprietary # <<>> THEN <<" ">> \o sub.proprietary
            ELSE <<>>)
        \o <<NL>> \o _clean_content(sub.content) \o <<NL, NL>>

\* SubtitleParser.compose(subtitles, reindex=False)
RECURSIVE compose_text(_)
compose_text(subs) ==
    IF subs = <<>> THEN <<>>
    ELSE to_srt_text(Head(subs)) \o compose_text(Tail(subs))

\* the longest prefix of a line made of digits and timestamp delimiters
RECURSIVE ts_prefix(_)
ts_prefix(line) ==
    IF line # <<>> /\ (IsDigit(Head(line)) \/ Head(line) \in MagnitudeDelims)
    THEN <<Head(line)>> \o ts_prefix(Tail(line))
    ELSE <<>>

\* RGX_TIMESTAMP matches at the start of the line
starts_ts(line) ==
    /\ Len(split_fields(ts_prefix(line))) >= 3
    /\ \A k \in 1..3 : split_fields(ts_prefix(line))[k] # <<>>

\* the line from the given position on
from(line, k) == SubSeq(line, k, Len(line))

\* the line read as "{ts} *-[ -] *> *{ts} ?{proprietary}"
hdr_parts(line) ==
    LET raw_start == ts_prefix(line)
        r1 == lstrip(from(line, Len(raw_start) + 1))
        r2 == lstrip(from(r1, 3))
        r3 == lstrip(from(r2, 2))
        raw_end == ts_prefix(r3)
        r4 == from(r3, Len(raw_end) + 1)
    IN [ok |-> /\ ts_match(raw_start)
               /\ Len(r1) >= 2 /\ r1[1] = "-" /\ r1[2] \in {"-", " "}
               /\ r2 # <<>> /\ r2[1] = ">"
               /\ ts_match(raw_end),
        raw_start |-> raw_start,
        raw_end |-> raw_end,
        proprietary |-> IF r4 # <<>> /\ r4[1] = " " THEN Tail(r4) ELSE r4]

\* RGX_INDEX matches the whole line
is_idx_chars(line) ==
    LET u == IF line # <<>> /\ Head(line) = "-" THEN Tail(line) ELSE line
    IN /\ u # <<>>
       /\ IsDigit(u[1])
       /\ \A k \in DOMAIN u : IsDigit(u[k]) \/ u[k] = "."
       /\ Cardinality({k \in DOMAIN u : u[k] = "."}) <= 1

\* "raw_index = int(raw_index)", None after ValueError
to_int(line) ==
    IF \E k \in DOMAIN line : line[k] = "." THEN None
    ELSE IF Head(line) = "-" THEN 0 - int(Tail(line))
    ELSE int(line)

\* P is the list of pieces str.split("\n") gives: piece k < Len(P) is a line
\* that a line feed ends, the last piece is what follows the last line feed
is_blank(P, k) == k < Len(P) /\ P[k] = <<>>

\* \Z holds at the start of piece k
at_end(P, k) == k = Len(P) /\ P[k] = <<>>

is_idx(P, k) == k < Len(P) /\ is_idx_chars(P[k])

is_hdr(P, k) == k <= Len(P) /\ hdr_parts(P[k]).ok

\* the first piece from k on that is not an empty line
RECURSIVE after_blanks(_, _)
after_blanks(P, k) == IF is_blank(P, k) THEN after_blanks(P, k + 1) ELSE k

\* the lookahead "{idx}\s*{eof}{ts}" at the start of piece k
look_idx_ts(P, k) ==
    /\ is_idx(P, k)
    /\ after_blanks(P, k + 1) <= Len(P)
    /\ starts_ts(P[after_blanks(P, k + 1)])

\* the lookahead "(?:{idx}\s*{eof})?{ts}" at the start of piece k
look_block(P, k) ==
    k <= Len(P) /\ (starts_ts(P[k]) \/ look_idx_ts(P, k))

\* the timestamp line of the block that starts at piece b, 0 if none does
block_header(P, b) ==
    IF b > Len(P) THEN 0
    ELSE IF is_hdr(P, b) THEN b
    ELSE IF is_idx(P, b) /\ is_hdr(P, after_blanks(P, b + 1))
    THEN after_blanks(P, b + 1)
    ELSE 0

\* the first piece from p on at which a block starts, 0 if there is none
RECURSIVE next_block(_, _)
next_block(P, p) ==
    IF p > Len(P) THEN 0
    ELSE IF block_header(P, p) # 0 THEN p
    ELSE next_block(P, p + 1)

\* offset of the start of piece k in the text the pieces were cut from
RECURSIVE offset(_, _)
offset(P, k) == IF k <= 1 THEN 0 ELSE offset(P, k - 1) + Len(P[k - 1]) + 1

\* number of characters of the text the pieces were cut from
total_len(P) == offset(P, Len(P)) + Len(P[Len(P)])

\* where the match of the block at piece b starts when the search began at
\* piece p: "\s*" takes the empty lines before the block and the line feed
\* of the last line that is not empty
match_start(P, p, b) ==
    LET junk == {q \in p..(b - 1) : ~is_blank(P, q)}
    IN IF junk = {} THEN offset(P, p)
       ELSE LET q == CHOOSE x \in junk : \A y \in junk : y <= x
            IN offset(P, q) + Len(P[q])

\* a content that is not lazy: it runs to the end of the text
content_end_greedy(P, k) == [last |-> Len(P), next |-> Len(P) + 1]

\* the lazy content that begins at piece j: its last piece and the piece at
\* which the match ends, for the shortest content after which
\* "(?:{eof}|\Z)(?:{eof}|\Z|(?={idx}\s*{eof}{ts}))(?=(?:...)?{ts}|\Z)" holds
RECURSIVE content_end(_, _)
content_end(P, k) ==
    IF k >= Len(P) THEN [last |-> Len(P), next |-> Len(P) + 1]
    ELSE IF is_blank(P, k + 1) /\ (look_block(P, k + 2) \/ at_end(P, k + 2))
    THEN [last |-> k, next |-> k + 2]
    ELSE IF at_end(P, k + 1) \/ look_idx_ts(P, k + 1)
    THEN [last |-> k, next |-> k + 1]
    ELSE content_end(P, k + 1)

RECURSIVE drop_leading_empty(_)
drop_leading_empty(lines) ==
    IF lines # <<>> /\ Head(lines) = <<>> THEN drop_leading_empty(Tail(lines))
    ELSE lines

RECURSIVE drop_trailing_empty(_)
drop_trailing_empty(lines) ==
    IF lines # <<>> /\ lines[Len(lines)] = <<>>
    THEN drop_trailing_empty(SubSeq(lines, 1, Len(lines) - 1))
    ELSE lines

\* content_cleaned_per_line: each line stripped, the whole stripped
content_cleaned_per_line(lines) ==
    join_lines(drop_trailing_empty(drop_leading_empty(
        [k \in DOMAIN lines |-> strip(lines[k])])))

\* str.isspace
isspace(text) ==
    text # <<>> /\ \A k \in DOMAIN text : text[k] \in {" ", NL}

\* check_continuity_raises without the exemption of a gap at offset 0
check_continuity_raises_strict(srt, expected_start, actual_start, warn_only) ==
    /\ expected_start # actual_start
    /\ ~warn_only

\* _check_continuity raises
check_continuity_raises(srt, expected_start, actual_start, warn_only) ==
    /\ expected_start # actual_start
    /\ ~(/\ expected_start = 0
         /\ \/ isspace(SubSeq(srt, expected_start + 1, actual_start))
            \/ SubSeq(srt, expected_start + 1, actual_start) = <<BOM>>)
    /\ ~warn_only

SRTParseError(srt, expected_start, actual_start) ==
    [raised |-> TRUE,
     expected_start |-> expected_start,
     actual_start |-> actual_start,
     unmatched_content |-> SubSeq(srt, expected_start + 1, actual_start),
     subtitles |-> <<>>]

Returned(subs) ==
    [raised |-> FALSE, expected_start |-> 0, actual_start |-> 0,
     unmatched_content |-> <<>>, subtitles |-> subs]

\* the Subtitle parse builds from the block at piece b with header h
block_subtitle(P, b, h) ==
    LET close == content_end(P, h + 1)
        lines == IF h = Len(P) THEN <<>>
                 ELSE SubSeq(P, h + 1, close.last)
    IN Subtitle(IF b # h THEN to_int(P[b]) ELSE None,
                _parse_timestamp(hdr_parts(P[h]).raw_start).value,
                _parse_timestamp(hdr_parts(P[h]).raw_end).value,
                content_cleaned_per_line(lines),
                hdr_parts(P[h]).proprietary)

\* SRT_REGEX.finditer over the pieces P of a text behind a leading
\* byte-order mark of shift characters, the search going on at piece p: the
\* matches in order, each with its span in the text and the entry parse
\* builds from its groups
RECURSIVE finditer(_, _, _)
finditer(P, shift, p) ==
    LET b == next_block(P, p)
        h == block_header(P, b)
        close == content_end(P, h + 1)
        match_end == IF close.next > Len(P) THEN total_len(P)
                     ELSE offset(P, close.next)
    IN IF b = 0 THEN <<>>
       ELSE <<[start |-> shift + match_start(P, p, b),
               end |-> shift + match_end,
               subtitle |-> block_subtitle(P, b, h)]>>
                \o finditer(P, shift, close.next)

\* the matches of SRT_REGEX in a text
matches(srt) ==
    IF srt # <<>> /\ Head(srt) = BOM
    THEN finditer(split_lines(Tail(srt)), 1, 1)
    ELSE finditer(split_lines(srt), 0, 1)

\* the loop of parse over the matches and the check after it
RECURSIVE parse_loop(_, _, _, _, _)
parse_loop(srt, found, expected_start, subs, ignore) ==
    IF found = <<>>
    THEN IF check_continuity_raises(srt, expected_start, Len(srt), ignore)
         THEN SRTParseError(srt, expected_start, Len(srt))
         ELSE Returned(subs)
    ELSE IF check_continuity_raises(srt, expected_start, Head(found).start,
                                    ignore)
    THEN SRTParseError(srt, expected_start, Head(found).start)
    ELSE parse_loop(srt, Tail(found), Head(found).end,
                    Append(subs, Head(found).subtitle), ignore)

\* SubtitleParser.parse(srt_data, ignore_errors)
parse_text(srt, ignore) == parse_loop(srt, matches(srt), 0, <<>>, ignore)

\* ---- inputs ----
Chars(s) == [k \in 1..Len(s) |-> s[k]]

\* a content that opens a block on its second line
BlockInContent ==
    <<"x", NL, "2", NL>> \o _format_timestamp(timedelta(0, 0, 5, 0)) \o Arrow
        \o _format_timestamp(timedelta(0, 0, 6, 0))

\* a content whose first two lines are a number and a timestamp line
BlockAtContentStart ==
    <<"2", NL>> \o _format_timestamp(timedelta(0, 0, 5, 0)) \o Arrow
        \o _format_timestamp(timedelta(0, 0, 6, 0)) \o <<NL, "z">>

RoundTripContents ==
    {<<"x">>, <<" ", "x", " ", NL, NL, " ", "y">>, BlockInContent,
     BlockAtContentStart}

\* (start, end) in milliseconds, by position in the sequence
RoundTripTimes == <<<<0, 1000>>, <<2500, 90061001>>, <<1000, 2500>>>>

RoundTripIndices == {None, 7}

RoundTripInputs ==
    UNION {[1..n -> RoundTripContents \X RoundTripIndices] :
              n \in 1..MaxParseSubs}

RoundTripInput(seq) ==
    [k \in 1..Len(seq) |->
        LET times == RoundTripTimes[((k - 1) % Len(RoundTripTimes)) + 1]
        IN Subtitle(seq[k][2], timedelta(0, 0, 0, times[1]),
                    timedelta(0, 0, 0, times[2]), seq[k][1],
                    IF k = 1 THEN <<"X", "1">> ELSE <<>>)]

HeaderLine ==
    _format_timestamp(timedelta(0, 0, 0, 0)) \o Arrow
        \o _format_timestamp(timedelta(0, 0, 1, 0))

\* the segments a text is put together from: a block with index, a block
\* without, a line of text, a line that begins with a timestamp without
\* being a timestamp line, an empty line
Segments ==
    {<<"1", NL>> \o HeaderLine \o <<NL, "x", NL, NL>>,
     HeaderLine \o <<" ", "P", NL, "y", " ", "z", NL, NL>>,
     <<"j", NL>>,
     _format_timestamp(timedelta(0, 0, 5, 0)) \o <<" ", "j", NL>>,
     <<NL>>}

RECURSIVE concat(_)
concat(seq) == IF seq = <<>> THEN <<>> ELSE Head(seq) \o concat(Tail(seq))

RawTexts ==
    {concat(seq) : seq \in UNION {[1..n -> Segments] : n \in 0..MaxSegments}}

NotParsedYet == Returned(<<>>)

PInit ==
    /\ \/ /\ \E seq \in RoundTripInputs : given_subtitles = RoundTripInput(seq)
          /\ srt_data = <<>>
          /\ ignore_errors = FALSE
          /\ rpc = "entries"
       \/ /\ given_subtitles = <<>>
          /\ \E text \in RawTexts, bom \in BOOLEAN :
                srt_data = IF bom THEN <<BOM>> \o text ELSE text
          /\ ignore_errors \in BOOLEAN
          /\ rpc = "text"
    /\ parse_out = NotParsedYet

PParked ==
    /\ given_subtitles = <<>>
    /\ srt_data = <<>>
    /\ ignore_errors = FALSE
    /\ parse_out = NotParsedYet
    /\ rpc = "parked"

\* composed = parser.compose(subs, reindex=False)
ComposeText ==
    /\ UNCHANGED outside_parser
    /\ rpc = "entries"
    /\ srt_data' = compose_text(given_subtitles)
    /\ rpc' = "text"
    /\ UNCHANGED <<given_subtitles, ignore_errors, parse_out>>

\* parser.parse(srt_data, ignore_errors)
ParseText ==
    /\ UNCHANGED outside_parser
    /\ rpc = "text"
    /\ parse_out' = parse_text(srt_data, ignore_errors)
    /\ rpc' = "parsed"
    /\ UNCHANGED <<given_subtitles, srt_data, ignore_errors>>

PNext ==
    \/ ComposeText
    \/ ParseText

\* ------------------------------------------------------------------------
\* Source of the chunks (srt.py, SrtService.split with reader.py, writer.py,
\* merger.py and splitter.py behind it).  Files are the texts they hold;
\* the texts hold no carriage return, so that the text mode of the files
\* changes nothing.  Times are milliseconds.
\* ------------------------------------------------------------------------
MaxSplitCalls == 2

\* the values of max_tokens the service is called with
FileBudgets == {0, 40, 200}

\* the defaults of SubtitleMerger.merge; of punct_end the ASCII characters
default_max_pause == 700
default_max_dur == 15000
default_punct_end == {",", ".", "?", "!"}

\* a timedelta in milliseconds
millis(td) ==
    td.days * MILLISECONDS_IN_DAY + td.seconds * 1000
        + (td.microseconds \div MICROSECONDS_IN_MILLISECOND)

\* entries with their times in milliseconds, and back
entries_ms(subs) ==
    [k \in DOMAIN subs |->
        [subs[k] EXCEPT !.start = millis(@), !.end = millis(@)]]

entries_td(subs) ==
    [k \in DOMAIN subs |->
        [subs[k] EXCEPT !.start = timedelta(0, 0, 0, @),
                        !.end = timedelta(0, 0, 0, @)]]

\* reader.read(path): parser.parse of the text of the file
reader_read(text) ==
    [raised |-> parse_text(text, FALSE).raised,
     subtitles |-> entries_ms(parse_text(text, FALSE).subtitles)]

\* writer.write(path, subtitles): the text compose(subtitles, reindex=True,
\* start_index=1) gives, or the TypeError of its sort
writer_write(subs) ==
    IF py_sorted(subs).raised THEN [raised |-> TRUE, text |-> <<>>]
    ELSE [raised |-> FALSE,
          text |-> compose_text(entries_td(
                       [k \in DOMAIN subs |->
                           [py_sorted(subs).list[k] EXCEPT !.index = k]]))]

\* _count_tokens("".join(s.to_srt() for s in subs)); the tokenizer is an
\* external capability, here one token for every character
srt_tokens(subs) == Len(compose_text(entries_td(subs)))

\* content.strip() ends with a sentence ender
ends_sentence(sub) ==
    /\ strip(sub.content) # <<>>
    /\ strip(sub.content)[Len(strip(sub.content))] \in {".", "?", "!"}

\* the loop "for p_sub in pending_subs" of split_subtitles on texts
RECURSIVE pending_loop(_, _, _, _, _)
pending_loop(pending, cs, current, aliased, limit) ==
    IF pending = <<>> THEN <<cs, current>>
    ELSE IF current # <<>>
            /\ srt_tokens(current) + srt_tokens(<<Head(pending)>>) > limit
    THEN pending_loop(Tail(pending), Append(cs, current),
                      <<Head(pending)>>, FALSE, limit)
    ELSE pending_loop(Tail(pending),
                      IF aliased
                      THEN [cs EXCEPT ![Len(cs)] =
                               Append(current, Head(pending))]
                      ELSE cs,
                      Append(current, Head(pending)), aliased, limit)

\* the body of the loop "for sub in subtitles" as a function of chunks,
\* current_chunk and pending_subs
split_body(st, sub, limit) ==
    IF srt_tokens(<<sub>>) > limit
    THEN LET cs1 == IF st.pending # <<>>
                    THEN Append(IF st.current # <<>>
                                THEN Append(st.chunks, st.current)
                                ELSE st.chunks,
                                st.pending)
                    ELSE st.chunks
             cur1 == IF st.pending # <<>> THEN <<>> ELSE st.current
             cs2 == IF cur1 # <<>> THEN Append(cs1, cur1) ELSE cs1
         IN [chunks |-> Append(cs2, <<sub>>), current |-> <<>>,
             pending |-> <<>>]
    ELSE LET pending == Append(st.pending, sub)
             cs1 == IF st.current # <<>>
                    THEN Append(st.chunks, st.current)
                    ELSE st.chunks
             looped == pending_loop(pending, cs1, st.current,
                                    st.current # <<>>, limit)
         IN IF srt_tokens(st.current \o pending) <= limit
            THEN IF ends_sentence(sub)
                 THEN [chunks |-> st.chunks,
                       current |-> st.current \o pending, pending |-> <<>>]
                 ELSE [chunks |-> st.chunks, current |-> st.current,
                       pending |-> pending]
            ELSE IF srt_tokens(pending) <= limit
            THEN IF ends_sentence(sub)
                 THEN [chunks |-> Append(cs1, pending), current |-> <<>>,
                       pending |-> <<>>]
                 ELSE [chunks |-> cs1, current |-> pending,
                       pending |-> <<>>]
            ELSE [chunks |-> looped[1], current |-> looped[2],
                  pending |-> <<>>]

RECURSIVE split_loop(_, _, _)
split_loop(st, rest, limit) ==
    IF rest = <<>> THEN st
    ELSE split_loop(split_body(st, Head(rest), limit), Tail(rest), limit)

\* what follows the loop: the remaining pending entries, the last chunk
split_rest(st, limit) ==
    LET merge_rest == /\ st.current # <<>>
                      /\ srt_tokens(st.current \o st.pending) <= limit
        cs1 == IF st.pending # <<>> /\ ~merge_rest /\ st.current # <<>>
               THEN Append(st.chunks, st.current)
               ELSE st.chunks
        cur1 == IF st.pending = <<>> THEN st.current
                ELSE IF merge_rest THEN st.current \o st.pending
                ELSE st.pending
    IN IF cur1 # <<>> THEN Append(cs1, cur1) ELSE cs1

\* SubtitleSplitter.split_subtitles on entries with texts as contents
split_subtitles(subs, limit) ==
    IF subs = <<>> \/ limit <= 0 THEN <<>>
    ELSE split_rest(split_loop([chunks |-> <<>>, current |-> <<>>,
                                pending |-> <<>>], subs, limit), limit)

\* merge(parse(text)) and the chunks split makes of it
merged_of(text) ==
    merge(reader_read(text).subtitles, default_max_pause,
          default_punct_end, default_max_dur)

chunks_of(text, limit) == split_subtitles(merged_of(text), limit)

\* ---- inputs ----
\* the input files: two entries that merge leaves apart, two it joins, two
\* with the same start, the longer first, and a file without entries
InputEntries ==
    {<<Subtitle(1, 0, 1000, <<"c", ".">>, <<>>),
       Subtitle(2, 5000, 6000, <<"d", ".">>, <<>>)>>,
     <<Subtitle(1, 0, 1000, <<"a">>, <<>>),
       Subtitle(2, 1200, 2000, <<"b", ".">>, <<>>)>>,
     <<Subtitle(1, 0, 3000, <<"x", ".">>, <<>>),
       Subtitle(2, 0, 1000, <<"y">>, <<>>)>>,
     <<>>}

InputTexts == {compose_text(entries_td(subs)) : subs \in InputEntries}

NoChunks == [raised |-> FALSE, chunks |-> <<>>]

FInit ==
    /\ in_file \in InputTexts
    /\ merged_file = NoFile
    /\ file_max_tokens \in FileBudgets
    /\ source_path = "none"
    /\ split_out = NoChunks
    /\ split_calls = 0
    /\ fpc = "idle"

FParked ==
    /\ in_file = <<>>
    /\ merged_file = NoFile
    /\ file_max_tokens = 0
    /\ source_path = "none"
    /\ split_out = NoChunks
    /\ split_calls = 0
    /\ fpc = "parked"

\* SrtService.split(file_path, max_tokens): the merged file is read when it
\* exists, the input file otherwise; the merged entries are written to the
\* merged file when it does not exist, and a failure of that write (the
\* TypeError of the sort, an error of the file system) is passed over
SrtSplit ==
    /\ UNCHANGED outside_service
    /\ fpc = "idle"
    /\ split_calls < MaxSplitCalls
    /\ LET source == IF merged_file.exists THEN merged_file.data
                     ELSE in_file
           read == reader_read(source)
           merged == merge(read.subtitles, default_max_pause,
                           default_punct_end, default_max_dur)
           written == writer_write(merged)
       IN /\ source_path' = IF merged_file.exists THEN "merged" ELSE "input"
          /\ IF read.raised
             THEN /\ split_out' = [raised |-> TRUE, chunks |-> <<>>]
                  /\ UNCHANGED merged_file
             ELSE /\ split_out' =
                        [raised |-> FALSE,
                         chunks |-> split_subtitles(merged, file_max_tokens)]
                  /\ \E saved \in BOOLEAN :
                        merged_file' =
                           IF ~merged_file.exists /\ ~written.raised /\ saved
                           THEN File(written.text)
                           ELSE merged_file
    /\ split_calls' = split_calls + 1
    /\ UNCHANGED <<in_file, file_max_tokens, fpc>>

\* between two runs the input file is given another text
ModifyInput ==
    /\ UNCHANGED outside_service
    /\ fpc = "idle"
    /\ split_calls > 0
    /\ in_file' \in InputTexts \ {in_file}
    /\ UNCHANGED <<merged_file, file_max_tokens, source_path, split_out,
                   split_calls>>
    /\ UNCHANGED fpc

FNext ==
    \/ SrtSplit
    \/ ModifyInput

\* ------------------------------------------------------------------------
\* Chunk pipeline (SubtitleWorkflow._arun_impl, _process_chunk)
\* ------------------------------------------------------------------------
\* CacheAccepted with the count comparison inverted
CacheAccepted_inverted(c, count) ==
    /\ c # NoText
    /\ ~parse_raises(c)
    /\ Len(parse(c)) # count

\* the cached text is used: "if cached:", it parses, and the count matches
CacheAccepted(c, count) ==
    /\ c # NoText
    /\ ~parse_raises(c)
    /\ Len(parse(c)) = count

\* which branch the lookup of the cache takes
CacheOutcome(c, lookup_raised, count) ==
    IF lookup_raised THEN "raised"
    ELSE IF c = NoText THEN "absent"
    ELSE IF parse_raises(c) THEN "unparsable"
    ELSE IF Len(parse(c)) # count THEN "count_mismatch"
    ELSE "hit"

\* AfterCache where a cached text that cannot be used ends the run
AfterCache_fatal(c, count) ==
    IF CacheAccepted(c, count) THEN "validate"
    ELSE IF c # NoText THEN "terminated"
    ELSE "proof"

\* position after the cache lookup: a usable cache skips _process_chunk
AfterCache(c, count) ==
    IF CacheAccepted(c, count) THEN "validate" ELSE "proof"

\* the loop "for o, p in zip(orig_parsed, processed_chunk)" sets mismatch
timestamp_mismatch(orig, proc) ==
    \E k \in 1..Min(Len(orig), Len(proc)) :
        proc[k].start # orig[k].start \/ proc[k].end # orig[k].end

\* Mapped taking the timestamps from the processed side as well
Mapped_processed_times(orig, proc) ==
    [k \in 1..Min(Len(orig), Len(proc)) |->
        Subtitle(orig[k].index, proc[k].start, proc[k].end,
                 proc[k].content, orig[k].proprietary)]

\* mapped: zip(orig_parsed, processed_chunk), content from the processed side
Mapped(orig, proc) ==
    [k \in 1..Min(Len(orig), Len(proc)) |->
        Subtitle(orig[k].index, orig[k].start, orig[k].end,
                 proc[k].content, orig[k].proprietary)]

\* the retry of the count branch is accepted on its count alone
retry_count_good(orig, retry_parsed) ==
    Len(retry_parsed) = Len(orig)

\* "good" of the timestamp branch: count and every (start, end)
retry_ts_good(orig, retry_parsed) ==
    /\ Len(retry_parsed) = Len(orig)
    /\ ~timestamp_mismatch(orig, retry_parsed)

WInit ==
    /\ run = 1
    /\ pc = "idle"
    /\ chunks = <<>>
    /\ i = 0
    /\ cache \in [ChunkIndices -> {NoText, JunkText}]
    /\ cached = NoText
    /\ cache_outcome = "none"
    /\ processed_srt = NoText
    /\ processed_chunk = <<>>
    /\ retry_srt = NoText
    /\ ctx = "none"
    /\ proofed_content = NoText
    /\ repaired = FALSE
    /\ processed_subtitles = <<>>
    /\ events = <<>>
    /\ out_file = NoText
    /\ n_proof = 0
    /\ n_trans = 0
    /\ trans_raised = FALSE
    /\ agent_out = NoText
    /\ n_put_raised = 0

StartEvents ==
    <<RunResponse("start", 0), RunResponse("splitting", 0)>>

\* srt_service.split raises (missing, unreadable or unparsable input): the
\* exception leaves the generator
SplitRaises ==
    /\ UNCHANGED outside_workflow
    /\ pc = "idle"
    /\ events' = StartEvents
    /\ pc' = "crashed"
    /\ UNCHANGED <<run, chunks, i, cache, cached, cache_outcome,
                   processed_srt, processed_chunk, retry_srt, ctx,
                   proofed_content, repaired, processed_subtitles, out_file,
                   n_proof, n_trans, trans_raised, agent_out, n_put_raised>>

\* SplitEmpty without "if not chunks": the run goes on past the empty loop
SplitEmpty_falls_through ==
    /\ UNCHANGED outside_workflow
    /\ pc = "idle"
    /\ events' = Append(StartEvents, RunResponse("split_count", 0))
    /\ pc' = "write"
    /\ UNCHANGED <<run, chunks, i, cache, cached, cache_outcome,
                   processed_srt, processed_chunk, retry_srt, ctx,
                   proofed_content, repaired, processed_subtitles, out_file,
                   n_proof, n_trans, trans_raised, agent_out, n_put_raised>>

\* "if not chunks": the split-failure event, then return
SplitEmpty ==
    /\ UNCHANGED outside_workflow
    /\ pc = "idle"
    /\ events' = Append(StartEvents, RunResponse("split_failed", 0))
    /\ pc' = "terminated"
    /\ UNCHANGED <<run, chunks, i, cache, cached, cache_outcome,
                   processed_srt, processed_chunk, retry_srt, ctx,
                   proofed_content, repaired, processed_subtitles, out_file,
                   n_proof, n_trans, trans_raised, agent_out, n_put_raised>>

SplitOk ==
    /\ UNCHANGED outside_workflow
    /\ pc = "idle"
    /\ \E d \in Docs : chunks' = d
    /\ events' = Append(StartEvents, RunResponse("split_count", 0))
    /\ i' = 1
    /\ processed_subtitles' = <<>>
    /\ pc' = "chunk"
    /\ UNCHANGED <<run, cache, cached, cache_outcome, processed_srt,
                   processed_chunk, retry_srt, ctx, proofed_content, repaired,
                   out_file, n_proof, n_trans, trans_raised,
                   agent_out, n_put_raised>>

\* top of the loop body up to the decision to call _process_chunk
BeginChunk ==
    /\ UNCHANGED outside_workflow
    /\ pc = "chunk"
    /\ events' = Append(events, RunResponse("processing", i))
    /\ \E lookup_raised \in BOOLEAN :
        LET c == IF lookup_raised THEN NoText ELSE cache[i]
        IN /\ cached' = c
           /\ cache_outcome' = CacheOutcome(c, lookup_raised, original_count)
           /\ processed_srt' =
                 IF CacheAccepted(c, original_count) THEN c ELSE NoText
           /\ pc' = AfterCache(c, original_count)
           /\ ctx' = IF CacheAccepted(c, original_count) THEN "none"
                     ELSE "first"
    /\ UNCHANGED <<run, chunks, i, cache, processed_chunk, retry_srt,
                   proofed_content, repaired, processed_subtitles, out_file,
                   n_proof, n_trans, trans_raised, agent_out, n_put_raised>>

\* Repair replaced by one more round of _process_chunk
Repair_process_again ==
    /\ pc' = "proof"
    /\ UNCHANGED <<processed_chunk, processed_srt, repaired, events>>

\* the last conservative strategy: map the processed text onto the original
\* timestamps
Repair ==
    /\ processed_chunk' = Mapped(orig_parsed, processed_chunk)
    /\ processed_srt' = compose(Mapped(orig_parsed, processed_chunk))
    /\ repaired' = TRUE
    /\ pc' = "persist"
    /\ UNCHANGED events

\* "retry failed" event of the timestamp branch, then return
RetryFailed ==
    /\ events' = Append(events, RunResponse("retry_failed", i))
    /\ pc' = "terminated"
    /\ UNCHANGED <<processed_chunk, processed_srt, repaired>>

\* an exception leaving _process_chunk, by call site: uncaught at the first
\* call, caught by "except Exception" around either retry
ExceptionInProcess ==
    CASE ctx = "first" ->
            /\ pc' = "crashed"
            /\ UNCHANGED <<processed_chunk, processed_srt, repaired, events>>
      [] ctx = "retry_count" -> Repair
      [] ctx = "retry_ts" -> RetryFailed

\* proof = await get_proofer().arun(chunk_srt), then the extraction
ProofReturns ==
    /\ UNCHANGED outside_workflow
    /\ pc = "proof"
    /\ n_proof' = n_proof + 1
    /\ \E t \in AgentTexts(orig_parsed) :
        /\ agent_out' = t
        /\ proofed_content' =
              or_pre_call_content(_extract_valid_srt(t), chunk_srt)
    /\ pc' = "translate"
    /\ UNCHANGED <<run, chunks, i, cache, cached, cache_outcome,
                   processed_srt, processed_chunk, retry_srt, ctx, repaired,
                   processed_subtitles, events, out_file, n_trans,
                   trans_raised, n_put_raised>>

ProofRaises ==
    /\ UNCHANGED outside_workflow
    /\ pc = "proof"
    /\ n_proof' = n_proof + 1
    /\ agent_out' = Raised
    /\ ExceptionInProcess
    /\ UNCHANGED <<run, chunks, i, cache, cached, cache_outcome, retry_srt,
                   ctx, proofed_content, processed_subtitles, out_file,
                   n_trans, trans_raised, n_put_raised>>

\* translated = await get_translator().arun(proofed_content), the extraction,
\* and the assignment of the returned text at the call site
TranslateReturns ==
    /\ UNCHANGED outside_workflow
    /\ pc = "translate"
    /\ n_trans' = n_trans + 1
    /\ \E t \in AgentTexts(orig_parsed) :
        LET translated_content ==
                or_pre_call_content(_extract_valid_srt(t), proofed_content)
        IN /\ agent_out' = t
           /\ IF ctx = "first"
              THEN /\ processed_srt' = translated_content
                   /\ pc' = "validate"
                   /\ UNCHANGED retry_srt
              ELSE /\ retry_srt' = translated_content
                   /\ pc' = "retry_check"
                   /\ UNCHANGED processed_srt
    /\ UNCHANGED <<run, chunks, i, cache, cached, cache_outcome,
                   processed_chunk, ctx, proofed_content, repaired,
                   processed_subtitles, events, out_file, n_proof,
                   trans_raised, n_put_raised>>

TranslateRaises ==
    /\ UNCHANGED outside_workflow
    /\ pc = "translate"
    /\ n_trans' = n_trans + 1
    /\ trans_raised' = TRUE
    /\ agent_out' = Raised
    /\ ExceptionInProcess
    /\ UNCHANGED <<run, chunks, i, cache, cached, cache_outcome, retry_srt,
                   ctx, proofed_content, processed_subtitles, out_file,
                   n_proof, n_put_raised>>

\* processed_chunk = parser.parse(processed_srt), then the count and the
\* timestamp comparison.  The parse is outside every try: an SRTParseError
\* leaves the generator.  The guards "if not chunk_srt", "if not
\* processed_srt" and "if not processed_chunk" never hold here: a chunk is
\* not empty, and an accepted cached text and a text that
\* is_valid_srt_format accepts hold at least one block.
Validate ==
    /\ UNCHANGED outside_workflow
    /\ pc = "validate"
    /\ IF parse_raises(processed_srt)
       THEN /\ pc' = "crashed"
            /\ UNCHANGED <<processed_chunk, ctx>>
       ELSE /\ processed_chunk' = parse(processed_srt)
            /\ IF Len(parse(processed_srt)) # original_count
               THEN pc' = "proof" /\ ctx' = "retry_count"
               ELSE IF timestamp_mismatch(orig_parsed, parse(processed_srt))
               THEN pc' = "proof" /\ ctx' = "retry_ts"
               ELSE pc' = "persist" /\ UNCHANGED ctx
    /\ UNCHANGED <<run, chunks, i, cache, cached, cache_outcome,
                   processed_srt, retry_srt, proofed_content, repaired,
                   processed_subtitles, events, out_file, n_proof, n_trans,
                   trans_raised, agent_out, n_put_raised>>

AcceptRetry ==
    /\ processed_srt' = retry_srt
    /\ processed_chunk' = parse(retry_srt)
    /\ pc' = "persist"
    /\ UNCHANGED <<repaired, events>>

\* what follows the return of the retried _process_chunk
RetryCheck ==
    /\ UNCHANGED outside_workflow
    /\ pc = "retry_check"
    /\ CASE ctx = "retry_count" ->
               IF parse_raises(retry_srt) THEN Repair
               ELSE IF retry_count_good(orig_parsed, parse(retry_srt))
               THEN AcceptRetry
               ELSE Repair
         [] ctx = "retry_ts" ->
               IF parse_raises(retry_srt) THEN RetryFailed
               ELSE IF retry_ts_good(orig_parsed, parse(retry_srt))
               THEN AcceptRetry
               ELSE Repair
    /\ UNCHANGED <<run, chunks, i, cache, cached, cache_outcome, retry_srt,
                   ctx, proofed_content, processed_subtitles, out_file,
                   n_proof, n_trans, trans_raised, agent_out, n_put_raised>>

\* "if processed_srt and cached != processed_srt"
must_save == processed_srt # NoText /\ cached # processed_srt

\* how a call of save_processed_chunk may end: it returns, it raises before
\* os.replace put the chunk file in place, or it raises after that (while
\* the manifest is loaded and saved)
PutOutcomes == {"saved", "raised_before_replace", "raised_after_replace"}

PutRaised == {"raised_before_replace", "raised_after_replace"}

\* after_put with the exception of save_processed_chunk not caught
after_put_fatal(outcome, next_pc) ==
    IF outcome \in PutRaised THEN "crashed" ELSE next_pc

\* "except Exception: logger.warning(...)": where the run goes on after
\* save_processed_chunk, whatever its outcome
after_put(outcome, next_pc) == next_pc

\* extend with the entries put in front of the accumulator
extend_in_front(acc, chunk) == chunk \o acc

\* processed_subtitles.extend(processed_chunk)
extend(acc, chunk) == acc \o chunk

\* CompleteChunk writing the output file after every chunk
CompleteChunk_writes_output ==
    /\ UNCHANGED outside_workflow
    /\ pc = "persist"
    /\ \E outcome \in (IF must_save THEN PutOutcomes ELSE {"not_called"}) :
          /\ cache' = IF outcome \in {"saved", "raised_after_replace"}
                      THEN [cache EXCEPT ![i] = processed_srt]
                      ELSE cache
          /\ n_put_raised' = IF outcome \in PutRaised
                             THEN n_put_raised + 1
                             ELSE n_put_raised
          /\ pc' = after_put(outcome,
                             IF i < Len(chunks) THEN "chunk" ELSE "write")
    /\ processed_subtitles' = extend(processed_subtitles, processed_chunk)
    /\ events' = Append(events, RunResponse("done", i))
    /\ i' = IF i < Len(chunks) THEN i + 1 ELSE i
    /\ cached' = NoText
    /\ cache_outcome' = "none"
    /\ processed_srt' = NoText
    /\ processed_chunk' = <<>>
    /\ retry_srt' = NoText
    /\ ctx' = "none"
    /\ proofed_content' = NoText
    /\ repaired' = FALSE
    /\ n_proof' = 0
    /\ n_trans' = 0
    /\ agent_out' = NoText
    /\ out_file' = compose(extend(processed_subtitles, processed_chunk))
    /\ UNCHANGED <<run, chunks, trans_raised>>

\* save_processed_chunk, whose exception is logged and dropped, then
\* processed_subtitles.extend(processed_chunk) and the completion event
CompleteChunk ==
    /\ UNCHANGED outside_workflow
    /\ pc = "persist"
    /\ \E outcome \in (IF must_save THEN PutOutcomes ELSE {"not_called"}) :
          /\ cache' = IF outcome \in {"saved", "raised_after_replace"}
                      THEN [cache EXCEPT ![i] = processed_srt]
                      ELSE cache
          /\ n_put_raised' = IF outcome \in PutRaised
                             THEN n_put_raised + 1
                             ELSE n_put_raised
          /\ pc' = after_put(outcome,
                             IF i < Len(chunks) THEN "chunk" ELSE "write")
    /\ processed_subtitles' = extend(processed_subtitles, processed_chunk)
    /\ events' = Append(events, RunResponse("done", i))
    /\ i' = IF i < Len(chunks) THEN i + 1 ELSE i
    /\ cached' = NoText
    /\ cache_outcome' = "none"
    /\ processed_srt' = NoText
    /\ processed_chunk' = <<>>
    /\ retry_srt' = NoText
    /\ ctx' = "none"
    /\ proofed_content' = NoText
    /\ repaired' = FALSE
    /\ n_proof' = 0
    /\ n_trans' = 0
    /\ agent_out' = NoText
    /\ UNCHANGED <<run, chunks, out_file, trans_raised>>

\* the "saving" event, srt_service.write, the final event
WriteOk ==
    /\ UNCHANGED outside_workflow
    /\ pc = "write"
    /\ out_file' = compose(processed_subtitles)
    /\ events' = events \o <<RunResponse("saving", 0),
                              RunResponse("success", 0)>>
    /\ pc' = "success"
    /\ UNCHANGED <<run, chunks, i, cache, cached, cache_outcome,
                   processed_srt, processed_chunk, retry_srt, ctx,
                   proofed_content, repaired, processed_subtitles, n_proof,
                   n_trans, trans_raised, agent_out, n_put_raised>>

\* srt_service.write raises: the exception leaves the generator
WriteRaises ==
    /\ UNCHANGED outside_workflow
    /\ pc = "write"
    /\ events' = Append(events, RunResponse("saving", 0))
    /\ pc' = "crashed"
    /\ UNCHANGED <<run, chunks, i, cache, cached, cache_outcome,
                   processed_srt, processed_chunk, retry_srt, ctx,
                   proofed_content, repaired, processed_subtitles, out_file,
                   n_proof, n_trans, trans_raised, agent_out, n_put_raised>>

\* the next invocation of arun on the same path; the chunk cache stays
NewRun ==
    /\ UNCHANGED outside_workflow
    /\ pc \in Ended
    /\ run < MaxRuns
    /\ run' = run + 1
    /\ pc' = "idle"
    /\ chunks' = <<>>
    /\ i' = 0
    /\ cached' = NoText
    /\ cache_outcome' = "none"
    /\ processed_srt' = NoText
    /\ processed_chunk' = <<>>
    /\ retry_srt' = NoText
    /\ ctx' = "none"
    /\ proofed_content' = NoText
    /\ repaired' = FALSE
    /\ processed_subtitles' = <<>>
    /\ events' = <<>>
    /\ out_file' = NoText
    /\ n_proof' = 0
    /\ n_trans' = 0
    /\ trans_raised' = FALSE
    /\ agent_out' = NoText
    /\ n_put_raised' = 0
    /\ UNCHANGED cache

Next ==
    \/ SplitRaises
    \/ SplitEmpty
    \/ SplitOk
    \/ BeginChunk
    \/ ProofReturns
    \/ ProofRaises
    \/ TranslateReturns
    \/ TranslateRaises
    \/ Validate
    \/ RetryCheck
    \/ CompleteChunk
    \/ WriteOk
    \/ WriteRaises
    \/ NewRun

Init ==
    WInit /\ SParked /\ CParked /\ MParked
    /\ KParked /\ TParked /\ PParked /\ FParked

Spec == Init /\ [][Next]_vars

\* runs on one input file that stays as it is: every run that can read it
\* gets the same chunks of it
SplitOkUnchanged == SplitOk /\ chunks' = DocC

ResumeNext ==
    \/ SplitRaises
    \/ SplitOkUnchanged
    \/ BeginChunk
    \/ ProofReturns
    \/ ProofRaises
    \/ TranslateReturns
    \/ TranslateRaises
    \/ Validate
    \/ RetryCheck
    \/ CompleteChunk
    \/ WriteOk
    \/ WriteRaises
    \/ NewRun

ResumeSpec == Init /\ [][ResumeNext]_vars

\* the workflow at rest while split_subtitles is examined on its own
WParked ==
    /\ run = 1
    /\ pc = "parked"
    /\ chunks = <<>>
    /\ i = 0
    /\ cache = [k \in ChunkIndices |-> NoText]
    /\ cached = NoText
    /\ cache_outcome = "none"
    /\ processed_srt = NoText
    /\ processed_chunk = <<>>
    /\ retry_srt = NoText
    /\ ctx = "none"
    /\ proofed_content = NoText
    /\ repaired = FALSE
    /\ processed_subtitles = <<>>
    /\ events = <<>>
    /\ out_file = NoText
    /\ n_proof = 0
    /\ n_trans = 0
    /\ trans_raised = FALSE
    /\ agent_out = NoText
    /\ n_put_raised = 0

SplitInit ==
    SInit /\ WParked /\ CParked /\ MParked
    /\ KParked /\ TParked /\ PParked /\ FParked

CacheInit ==
    CInit /\ WParked /\ SParked /\ MParked
    /\ KParked /\ TParked /\ PParked /\ FParked

CacheSpec == CacheInit /\ [][CNext]_vars

MergeInit ==
    MInit /\ WParked /\ SParked /\ CParked
    /\ KParked /\ TParked /\ PParked /\ FParked

MergeSpec == MergeInit /\ [][MNext]_vars

ComposeInit ==
    KInit /\ WParked /\ SParked /\ CParked
    /\ MParked /\ TParked /\ PParked /\ FParked

ComposeSpec == ComposeInit /\ [][KNext]_vars

SplitSpec == SplitInit /\ [][SNext]_vars

TimestampInit ==
    TInit /\ WParked /\ SParked /\ CParked
    /\ MParked /\ KParked /\ PParked /\ FParked

TimestampSpec == TimestampInit /\ [][TNext]_vars

ParseInit ==
    PInit /\ WParked /\ SParked /\ CParked
    /\ MParked /\ KParked /\ TParked /\ FParked

ParseSpec == ParseInit /\ [][PNext]_vars

ServiceInit ==
    FInit /\ WParked /\ SParked /\ CParked
    /\ MParked /\ KParked /\ TParked /\ PParked

ServiceSpec == ServiceInit /\ [][FNext]_vars

\* ------------------------------------------------------------------------
\* Properties
\* ------------------------------------------------------------------------
\* chunk i is complete: its entries are about to be appended
ChunkCompletes == pc = "persist"

\* C1: every completed chunk's entries have, position by position, the
\* (start, end) of the original chunk's entries.
C1_TimingPreserved ==
    ChunkCompletes =>
        \A k \in 1..Len(processed_chunk) :
            k <= Len(orig_parsed) =>
                /\ processed_chunk[k].start = orig_parsed[k].start
                /\ processed_chunk[k].end = orig_parsed[k].end

\* C2: every completed chunk appends as many entries as the original chunk
\* holds; a count that cannot be restored fails the chunk instead.
C2_CountPreserved ==
    ChunkCompletes => Len(processed_chunk) = Len(chunks[i])

\* C3: for max_tokens > 0, connecting the chunks of split_subtitles in order
\* gives back exactly the input sequence.
C3_SplitCoversInput ==
    (spc = "done" /\ max_tokens > 0) => connect(split_chunks) = subtitles

\* C4: every chunk of split_subtitles costs at most max_tokens, except a chunk
\* of exactly one entry that alone exceeds max_tokens.
C4_ChunkWithinBudget ==
    spc = "done" =>
        \A c \in 1..Len(split_chunks) :
            \/ SumTokens(split_chunks[c]) <= max_tokens
            \/ /\ Len(split_chunks[c]) = 1
               /\ SumTokens(split_chunks[c]) > max_tokens

C4_Witness ==
    /\ spc = "done"
    /\ \E c \in 1..Len(split_chunks) :
          Len(split_chunks[c]) = 1 /\ SumTokens(split_chunks[c]) > max_tokens
    /\ \E c \in 1..Len(split_chunks) :
          Len(split_chunks[c]) >= 2 /\ SumTokens(split_chunks[c]) = max_tokens

\* C5: the event stream of a finished run ends with the success event or
\* with the one and only error-bearing event.
C5_StreamEndsInSuccessOrError ==
    pc \in Ended =>
        /\ events # <<>>
        /\ \/ events[Len(events)].content = "success"
           \/ /\ events[Len(events)].error
              /\ Cardinality({k \in 1..Len(events) : events[k].error}) = 1

\* the cached text of chunk i parses and has the original entry count
CacheHit ==
    /\ i \in 1..Len(chunks)
    /\ cached.kind = "srt"
    /\ Len(cached.blocks) = Len(chunks[i])

\* ... and also the original (start, end) at every position
CacheHitExact ==
    /\ CacheHit
    /\ \A k \in 1..Len(chunks[i]) :
          /\ cached.blocks[k].start = chunks[i][k].start
          /\ cached.blocks[k].end = chunks[i][k].end

\* the chunk goes from the lookup to completion on the cached entries without
\* a call of either agent
StraightToDone ==
    /\ n_proof = 0
    /\ n_trans = 0
    /\ pc \in {"validate", "persist"}
    /\ pc = "persist" => processed_chunk = parse(cached)

\* C6: a cached text that parses and has the original entry count completes
\* the chunk with the cached entries, and no agent is called for the chunk.
C6_CacheHitStraightToDone == CacheHit => StraightToDone

\* C6 (amended): a cached text that parses, has the original entry count and
\* the original (start, end) at every position completes the chunk with the
\* cached entries, and no agent is called for the chunk.
C6_ExactCacheHitStraightToDone == CacheHitExact => StraightToDone

C6_Witness == CacheHitExact /\ pc = "persist" /\ i = 1 /\ Len(chunks[i]) = 2

\* C7: an absent, unparsable or wrong-count cached text, and a lookup that
\* raises, send the chunk to processing; the run goes on.
C7_CacheMissGoesToProcess ==
    [][(pc = "chunk" /\ cache_outcome' \in
            {"absent", "unparsable", "count_mismatch", "raised"})
        => (pc' = "proof" /\ ctx' = "first" /\ processed_srt' = NoText)]_vars

C7_Witness ==
    /\ cache_outcome = "count_mismatch"
    /\ pc = "translate"
    /\ n_proof = 1

\* C8: a chunk is processed at most twice, and what follows the retry is the
\* acceptance of the retry, the repair or the failure, never a third round.
C8_RetryHappensOnce ==
    [][/\ n_proof' <= 2
       /\ n_trans' <= 2
       /\ pc = "retry_check" => pc' \in {"persist", "terminated"}]_vars

C8_Witness ==
    /\ pc = "persist"
    /\ repaired
    /\ n_proof = 2
    /\ n_trans = 2

\* C9: a repaired entry at position k has the index, start, end and
\* proprietary of the original entry k (orig_parsed, the chunk as it was
\* serialized for processing) and the content of the processed entry k.
C9_RepairTakesOnlyContent ==
    [][(~repaired /\ repaired') =>
        /\ Len(processed_chunk') <= Len(orig_parsed)
        /\ Len(processed_chunk') <= Len(processed_chunk)
        /\ \A k \in 1..Len(processed_chunk') :
              /\ processed_chunk'[k].index = orig_parsed[k].index
              /\ processed_chunk'[k].start = orig_parsed[k].start
              /\ processed_chunk'[k].end = orig_parsed[k].end
              /\ processed_chunk'[k].proprietary = orig_parsed[k].proprietary
              /\ processed_chunk'[k].content = processed_chunk[k].content]_vars

C9_Witness ==
    /\ repaired
    /\ pc = "persist"
    /\ Len(processed_chunk) = 2
    /\ processed_chunk[2].content = "t2"
    /\ processed_chunk[2].start = chunks[i][2].start

\* C10: a translation call that raises, in the first round or in the retry,
\* ends the run in failure.
C10_TranslationFailureIsFatal ==
    trans_raised => pc \in {"crashed", "terminated"}

\* C11: a proofing call that raises is followed by the translation call on
\* the original chunk text; the run does not end because of it.
C11_ProofingFailureRecovered ==
    [][(pc = "proof" /\ agent_out' = Raised)
        => (pc' = "translate" /\ proofed_content' = chunk_srt)]_vars

\* C12: after a proofing answer that the extraction reports invalid the
\* translator is called with the original chunk text, and after a
\* translation answer that it reports invalid _process_chunk returns the
\* content of the proofing stage.
C12_ExtractionFallback ==
    [][/\ (pc = "proof" /\ agent_out' # Raised
               /\ ~_extract_valid_srt(agent_out')[1])
           => (pc' = "translate" /\ proofed_content' = chunk_srt)
       /\ (pc = "translate" /\ agent_out' # Raised
               /\ ~_extract_valid_srt(agent_out')[1])
           => IF ctx = "first"
              THEN pc' = "validate" /\ processed_srt' = proofed_content
              ELSE pc' = "retry_check" /\ retry_srt' = proofed_content]_vars

\* both answers of the first round were invalid: the original chunk text came
\* back from _process_chunk
C12_Witness ==
    /\ pc = "validate"
    /\ n_proof = 1
    /\ n_trans = 1
    /\ agent_out = JunkText
    /\ processed_srt = chunk_srt

\* C13: after any sequence of calls of save_processed_chunk that returned,
\* get_processed_chunk gives for every key exactly the text of the most
\* recent call for that key.
C13_GetReturnsLastPut ==
    ppc = "idle" =>
        \A k \in Keys :
            (last_put[k].done /\ k \notin interrupted)
                => get_processed_chunk(k) = Cached(last_put[k].text)

\* C14: get_processed_chunk gives None for a key save_processed_chunk was
\* never called with, and a call of save_processed_chunk changes the result
\* of get_processed_chunk for no key but its own.
C14_GetIsKeyedByTriple ==
    /\ [](\A k \in Keys :
             k \notin put_keys => get_processed_chunk(k) = NotCached)
    /\ [][\A k \in Keys :
             (put_args.key # k /\ put_args'.key # k)
                 => get_processed_chunk(k)' = get_processed_chunk(k)]_vars

C14_Witness ==
    /\ ppc = "idle"
    /\ \E k, other \in Keys :
          /\ k.file_path = other.file_path
          /\ k.chunk_index = other.chunk_index
          /\ k.target_lang # other.target_lang
          /\ last_put[k].done
          /\ get_processed_chunk(k).found
          /\ other \notin put_keys
          /\ get_processed_chunk(other) = NotCached

\* the manifest of the document holds a record with a save time for the
\* chunk index and language of k
has_record(k) ==
    /\ manifests[_chunks_dir(k.file_path)].exists
    /\ LET rec == manifests[_chunks_dir(k.file_path)].chunks[k.chunk_index]
       IN rec.lang = k.target_lang /\ rec.saved_at > 0

\* C15: after any sequence of calls of save_processed_chunk that returned,
\* the manifest holds a record with a save time for every (chunk index,
\* language) pair that was saved.
C15_ManifestRecordsEverySavedPair ==
    (ppc = "idle" /\ interrupted = {}) =>
        \A k \in Keys : last_put[k].done => has_record(k)

\* C16: every step of save_processed_chunk, and its end at any point,
\* leaves the result of get_processed_chunk for every key as it was or makes
\* it the complete new text: no partly written text is ever read.
C16_GetNeverSeesPartialText ==
    [][\A k \in Keys :
          \/ get_processed_chunk(k)' = get_processed_chunk(k)
          \/ /\ put_args.key = k
             /\ get_processed_chunk(k)' =
                   Cached(read_text(write_text(put_args.srt_text,
                                               linesep)))]_vars

\* a second call for a key ended while the temp file was half written: the
\* first call's text is still what is read
C16_Witness ==
    /\ ppc = "idle"
    /\ \E k \in interrupted :
          /\ last_put[k].done
          /\ files[_tmp_file(k)].exists
          /\ Len(files[_tmp_file(k)].data) = 1
          /\ get_processed_chunk(k) =
                Cached(read_text(write_text(last_put[k].text, linesep)))

\* chunk i completes on the entries of an accepted cached text
FromCacheHit == cache_outcome = "hit" /\ n_proof = 0 /\ n_trans = 0

\* C17: a chunk that completes from an accepted cache hit calls
\* save_processed_chunk not at all and leaves the cache as it is; a chunk
\* that completes through processing, retry or repair calls it once, with
\* its final text, before the completion event.
C17_PersistExactlyWhenNotCacheHit ==
    [][pc = "persist" =>
          IF FromCacheHit
          THEN ~must_save /\ cache' = cache
          ELSE /\ must_save
               /\ \/ cache'[i] = processed_srt
                  \/ n_put_raised' > n_put_raised /\ cache' = cache
               /\ events' = Append(events, RunResponse("done", i))]_vars

\* C18: a call of save_processed_chunk that raises does not stop the chunk:
\* its entries are appended, the completion event is given, and the run goes
\* on with the next chunk or with the output file.
C18_CacheWriteFailureIsNotFatal ==
    [][n_put_raised' > n_put_raised =>
          /\ pc = "persist"
          /\ processed_subtitles' = processed_subtitles \o processed_chunk
          /\ events' = Append(events, RunResponse("done", i))
          /\ IF i < Len(chunks)
             THEN pc' = "chunk" /\ i' = i + 1
             ELSE pc' = "write"]_vars

\* the first chunk's text never reached the cache, the second chunk's did,
\* and the run ended in success with the entries of both
C18_Witness ==
    /\ run = 1
    /\ pc = "success"
    /\ n_put_raised = 1
    /\ Len(chunks) = 2
    /\ cache[1] = NoText
    /\ cache[2].kind = "srt"
    /\ Len(processed_subtitles) = 3
    /\ out_file = compose(processed_subtitles)

\* the run works on chunk i: its cache lookup, its agent calls, its checks
InLoop ==
    {"chunk", "proof", "translate", "validate", "retry_check", "persist"}

\* the chunk numbers of the completion events, in the order of the stream
DoneChunks ==
    LET done == SelectSeq(events, LAMBDA e : e.content = "done")
    IN [k \in 1..Len(done) |-> done[k].chunk]

\* C19: the run works on chunk i only when the chunks 1..i-1 have completed,
\* in that order, and the accumulator changes only by the entries of the
\* completing chunk being appended at its end.
C19_ChunksInOrder ==
    /\ [](pc \in InLoop =>
             /\ i \in 1..Len(chunks)
             /\ DoneChunks = [k \in 1..(i - 1) |-> k])
    /\ [][pc = "persist" =>
             processed_subtitles' = processed_subtitles \o processed_chunk]_vars
    /\ [][processed_subtitles' # processed_subtitles =>
             pc \in {"persist"} \cup Ended]_vars

\* both chunks of a document completed: the entries of chunk 1, then the
\* entry of chunk 2
C19_Witness ==
    /\ pc = "write"
    /\ Len(chunks) = 2
    /\ DoneChunks = <<1, 2>>
    /\ Len(processed_subtitles) = 3
    /\ processed_subtitles[1].start = chunks[1][1].start
    /\ processed_subtitles[2].content = "t2"
    /\ processed_subtitles[3].start = chunks[2][1].start
    /\ processed_subtitles[3].content = "t1"

\* C20: an entry whose trimmed content ends with a character of punct_end
\* is never merged with the entry that follows it in start order, whatever
\* the gap between them, max_pause and max_dur.
C20_PunctuationIsMergeBarrier ==
    \A k \in joins :
        ~(/\ strip(sorted_subtitles[k].content) # <<>>
          /\ strip(sorted_subtitles[k].content)
                 [Len(strip(sorted_subtitles[k].content))] \in punct_end)

\* entries 1 and 2 were merged, entry 2 ends with a character of punct_end,
\* and entry 3, which overlaps it and fits max_dur, was kept apart
C20_Witness ==
    /\ mpc = "done"
    /\ Len(sorted_subtitles) = 3
    /\ joins = {1}
    /\ strip(sorted_subtitles[2].content) = <<"a", ".">>
    /\ "." \in punct_end
    /\ sorted_subtitles[3].start < sorted_subtitles[2].end
    /\ sorted_subtitles[3].end - sorted_subtitles[1].start <= max_dur
    /\ Len(merged_subtitles) = 2

\* C21: merge runs close only at punctuation or at the end of the input: in
\* the result of merge every entry except the last has a trimmed content
\* that ends with a character of punct_end.  Stated for a punct_end that
\* names a character and inputs whose trimmed contents are not empty.
C21_RunsCloseOnlyAtPunctuation ==
    (/\ mpc = "done"
     /\ punct_end # {}
     /\ \A k \in DOMAIN m_subtitles : strip(m_subtitles[k].content) # <<>>) =>
        \A j \in 1..(Len(merged_subtitles) - 1) :
            /\ strip(merged_subtitles[j].content) # <<>>
            /\ strip(merged_subtitles[j].content)
                   [Len(strip(merged_subtitles[j].content))] \in punct_end

\* the entries of sorted_subtitles that start a run, and the end of the run
\* that starts at a
RunStarts == {a \in DOMAIN sorted_subtitles : (a - 1) \notin joins}

RECURSIVE RunEnd(_)
RunEnd(a) == IF a \in joins THEN RunEnd(a + 1) ELSE a

\* the position in the result of the run that starts at a
RunNumber(a) == Cardinality({k \in RunStarts : k <= a})

\* the trimmed contents of entries a..b of sorted_subtitles joined by single
\* spaces
RECURSIVE JoinTrimmed(_, _)
JoinTrimmed(a, b) ==
    IF a = b THEN strip(sorted_subtitles[a].content)
    ELSE JoinTrimmed(a, b - 1) \o <<" ">> \o strip(sorted_subtitles[b].content)

\* C22: an entry of the result that was merged from a run of two or more
\* inputs has the start of the run's first entry, the end of the run's last
\* entry, the trimmed contents joined by single spaces in order, the first
\* entry's proprietary and no index.  Stated for inputs whose trimmed
\* contents are not empty.
C22_ShapeOfMergedEntry ==
    (/\ mpc = "done"
     /\ \A k \in DOMAIN m_subtitles : strip(m_subtitles[k].content) # <<>>) =>
        \A a \in RunStarts :
            a \in joins =>
                LET merged == merged_subtitles[RunNumber(a)]
                IN /\ merged.start = sorted_subtitles[a].start
                   /\ merged.end = sorted_subtitles[RunEnd(a)].end
                   /\ merged.content = JoinTrimmed(a, RunEnd(a))
                   /\ merged.proprietary = sorted_subtitles[a].proprietary
                   /\ merged.index = None

\* C23: in every pass of the loop the accumulated entry and the next entry
\* are joined exactly when the accumulated entry's trimmed content does not
\* end with a character of punct_end, next.start - current.end <= max_pause
\* and next.end - current.start <= max_dur; otherwise the accumulated entry
\* is emitted and the next entry starts a new accumulation.
C23_MergeDecisionRule ==
    [][(mpc = "loop" /\ mpos < Len(sorted_subtitles)) =>
          LET next == sorted_subtitles[mpos + 1]
              trimmed == strip(current_subtitle.content)
          IN IF /\ ~(trimmed # <<>> /\ trimmed[Len(trimmed)] \in punct_end)
                /\ next.start - current_subtitle.end <= max_pause
                /\ next.end - current_subtitle.start <= max_dur
             THEN /\ merged_subtitles' = merged_subtitles
                  /\ joins' = joins \cup {mpos}
                  /\ current_subtitle'.start = current_subtitle.start
                  /\ current_subtitle'.content =
                         trimmed \o <<" ">> \o strip(next.content)
             ELSE /\ merged_subtitles' =
                         Append(merged_subtitles, current_subtitle)
                  /\ joins' = joins
                  /\ current_subtitle' = next]_vars

\* entries 1 and 2 were joined across a pause equal to max_pause; entry 3
\* follows without punctuation before it and within max_pause, and was kept
\* apart because the joined entry would last longer than max_dur
C23_Witness ==
    /\ mpc = "done"
    /\ Len(sorted_subtitles) = 3
    /\ joins = {1}
    /\ punct_end = {"."}
    /\ sorted_subtitles[2].start - sorted_subtitles[1].end = max_pause
    /\ strip(sorted_subtitles[2].content) = <<"a">>
    /\ sorted_subtitles[3].start - sorted_subtitles[2].end <= max_pause
    /\ sorted_subtitles[3].end - sorted_subtitles[1].start > max_dur
    /\ Len(merged_subtitles) = 2

\* C24: every entry of the result that was formed from two or more input
\* entries lasts at most max_dur, whatever the input.
C24_MaxDurBoundsMergedEntries ==
    mpc = "done" =>
        \A a \in RunStarts :
            a \in joins =>
                merged_subtitles[RunNumber(a)].end
                    - merged_subtitles[RunNumber(a)].start <= max_dur

\* C25: in the result of split no chunk after the first has fewer than 3
\* entries when its entries and those of the chunk before it fit max_tokens
\* together.
C25_SmallChunkJoinsPredecessor ==
    spc = "done" =>
        \A j \in 2..Len(split_chunks) :
            Len(split_chunks[j]) < 3 =>
                _count_tokens(split_chunks[j - 1] \o split_chunks[j])
                    > max_tokens

\* entry k of the input is a chunk of its own in the result and every entry
\* before it lies in an earlier chunk
Isolated(k) ==
    \E j \in DOMAIN split_chunks :
        /\ split_chunks[j] = <<subtitles[k]>>
        /\ \A before \in 1..(k - 1) :
               \E earlier \in 1..(j - 1) :
                   \E n \in DOMAIN split_chunks[earlier] :
                       split_chunks[earlier][n] = subtitles[before]

\* C26: every entry whose own serialized token count exceeds max_tokens is
\* a chunk of exactly that entry in the result of split, and the entries
\* accumulated before it are in earlier chunks.
C26_OversizedEntriesIsolated ==
    spc = "done" =>
        \A k \in DOMAIN subtitles :
            _count_tokens(<<subtitles[k]>>) > max_tokens => Isolated(k)

\* C26 as amended: the same for a positive max_tokens.
C26_OversizedEntriesIsolatedInScan ==
    (spc = "done" /\ max_tokens > 0) =>
        \A k \in DOMAIN subtitles :
            _count_tokens(<<subtitles[k]>>) > max_tokens => Isolated(k)

\* an oversized entry arrived while a chunk and pending entries were held:
\* both were flushed before it and it stands alone, followed by a later chunk
C26_Witness ==
    /\ spc = "done"
    /\ max_tokens = 3
    /\ Len(subtitles) = 4
    /\ _count_tokens(<<subtitles[3]>>) > max_tokens
    /\ ~is_sentence_end(subtitles[2])
    /\ split_chunks = << <<subtitles[1]>>, <<subtitles[2]>>,
                         <<subtitles[3]>>, <<subtitles[4]>> >>

\* C27: in the result of split_subtitles the last entry of every chunk has a
\* content that ends with a sentence terminator.
C27_ChunksEndOnSentence ==
    spc = "done" =>
        \A j \in DOMAIN split_chunks :
            split_chunks[j] # <<>> =>
                is_sentence_end(split_chunks[j][Len(split_chunks[j])])

\* C28: split returns the empty list when the input is empty or
\* max_tokens <= 0, and otherwise every chunk it returns holds at least one
\* entry.
C28_ChunksNeverEmpty ==
    spc = "done" =>
        /\ (subtitles = <<>> \/ max_tokens <= 0) => split_chunks = <<>>
        /\ \A j \in DOMAIN split_chunks : Len(split_chunks[j]) >= 1

\* the scan ended with nothing accumulated, after an oversized last entry
\* had flushed the chunk before it: two chunks and no empty third one
C28_Witness ==
    /\ spc = "done"
    /\ max_tokens > 0
    /\ Len(subtitles) = 3
    /\ current_chunk = <<>>
    /\ split_chunks = << <<subtitles[1], subtitles[2]>>, <<subtitles[3]>> >>

\* C29: in the output of a successful run the content of every entry is the
\* original entry's content, a newline and the translated content: some
\* original content of the document with some content of the translation
\* under it.
C29_TranslationAppendedUnderOriginal ==
    pc = "success" =>
        \A k \in DOMAIN out_file.blocks :
            \E o \in DOMAIN connect(chunks), t \in DOMAIN OutContents :
                out_file.blocks[k].content =
                    connect(chunks)[o].content \o "\n" \o OutContents[t]

\* C30: compose with reindex emits the entries sorted by (start, end, index)
\* and numbered start_index, start_index + 1, ... in that order; without
\* reindex it emits the entries in the given order with their own indices;
\* in both cases the entries it was given stay as they were.
C30_ComposeOrderAndIndices ==
    /\ [](kpc = "done" =>
             /\ ~composed.raised
             /\ Len(composed.blocks) = Len(k_subtitles)
             /\ reindex =>
                    /\ \A k \in DOMAIN composed.blocks :
                           composed.blocks[k].idx = start_index + k - 1
                    /\ \A k \in 1..(Len(composed.blocks) - 1) :
                           LET a == composed.blocks[k]
                               b == composed.blocks[k + 1]
                           IN \/ a.start < b.start
                              \/ a.start = b.start /\ a.end <= b.end
                    /\ \A n \in DOMAIN k_subtitles :
                           \E k \in DOMAIN composed.blocks :
                               /\ composed.blocks[k].content
                                      = k_subtitles[n].content
                               /\ composed.blocks[k].start
                                      = k_subtitles[n].start
                               /\ composed.blocks[k].end = k_subtitles[n].end
             /\ ~reindex =>
                    \A k \in DOMAIN k_subtitles :
                        /\ composed.blocks[k].content = k_subtitles[k].content
                        /\ composed.blocks[k].start = k_subtitles[k].start
                        /\ composed.blocks[k].end = k_subtitles[k].end
                        /\ k_subtitles[k].index # None =>
                               composed.blocks[k].idx = k_subtitles[k].index)
    /\ [][kpc = "entry" => k_subtitles' = k_subtitles]_vars

\* C33: when splitting yields no chunks the run emits the split-failure
\* event and terminates at once: no collaborator is called, the cache is
\* neither read nor written and no output file is written.
C33_EmptySplitEndsRun ==
    /\ []((chunks = <<>> /\ pc \notin {"idle", "crashed", "parked"}) =>
             /\ pc = "terminated"
             /\ events = Append(StartEvents, RunResponse("split_failed", 0))
             /\ n_proof = 0 /\ n_trans = 0 /\ agent_out = NoText
             /\ cached = NoText /\ cache_outcome = "none"
             /\ n_put_raised = 0
             /\ out_file = NoText)
    /\ [][(pc = "idle" /\ pc' # "idle" /\ chunks' = <<>>) =>
             cache' = cache]_vars

\* a second run whose split yields no chunks, with a chunk text in the cache
\* from the run before
C33_Witness ==
    /\ run = 2
    /\ pc = "terminated"
    /\ chunks = <<>>
    /\ events[Len(events)] = RunResponse("split_failed", 0)
    /\ cache[1].kind = "srt"

\* C35: whenever the extraction reports an agent's answer valid, the text
\* handed to the next stage (the proofed content, or the text _process_chunk
\* returns) parses directly into at least one entry.
C35_HandedOnTextParses ==
    [][/\ (pc = "proof" /\ agent_out' # Raised
               /\ _extract_valid_srt(agent_out')[1])
           => (~parse_raises(proofed_content')
                  /\ Len(proofed_content'.blocks) > 0)
       /\ (pc = "translate" /\ agent_out' # Raised
               /\ _extract_valid_srt(agent_out')[1])
           => LET handed == IF ctx = "first" THEN processed_srt'
                            ELSE retry_srt'
              IN ~parse_raises(handed) /\ Len(handed.blocks) > 0]_vars

\* C36: in a sequence of runs on one unchanged input, a chunk whose text an
\* earlier run persisted (the cache starts without any usable text, so a
\* cached text that parses was saved by a run) is completed from the cache:
\* the lookup is a hit and neither agent is called for it.
C36_ResumeFromPersistedChunks ==
    (run > 1 /\ cached.kind = "srt") => FromCacheHit

\* C37: the output file is written at most once in a run, by the step that
\* follows the completion of the last chunk, and holds the composed
\* accumulator to which every chunk has contributed; a run that ended
\* otherwise has written none.  The chunk cache is written only by the step
\* that completes a chunk: a step that ends the run on a chunk leaves it
\* alone.
C37_OutputOnceAfterAllChunks ==
    /\ [](out_file # NoText =>
             /\ pc = "success"
             /\ DoneChunks = [k \in 1..Len(chunks) |-> k]
             /\ Len(processed_subtitles) >= Len(chunks)
             /\ out_file = compose(processed_subtitles))
    /\ [][out_file' # out_file =>
             \/ pc = "write" /\ pc' = "success" /\ out_file = NoText
             \/ pc = "success" /\ pc' = "idle" /\ out_file' = NoText]_vars
    /\ [][cache' # cache =>
             /\ pc = "persist"
             /\ pc' \in {"chunk", "write"}
             /\ events' = Append(events, RunResponse("done", i))]_vars
    /\ [][(pc \in InLoop /\ pc' \in {"terminated", "crashed"}) =>
             (cache' = cache /\ out_file' = NoText)]_vars

\* the second chunk of a run failed in its timestamp retry: chunk 1 is
\* persisted, nothing was saved for chunk 2 and no output was written
C37_Witness ==
    /\ pc = "terminated"
    /\ Len(chunks) = 2
    /\ i = 2
    /\ DoneChunks = <<1>>
    /\ events[Len(events)] = RunResponse("retry_failed", 2)
    /\ cache[1].kind = "srt"
    /\ cache[2] = NoText
    /\ out_file = NoText

\* (start, end, content) of every entry of a list
Triples(s) == [k \in 1..Len(s) |-> <<s[k].start, s[k].end, s[k].content>>]

RECURSIVE JoinNonEmpty(_, _)
JoinNonEmpty(a, b) ==
    IF a > b THEN <<>>
    ELSE LET before == JoinNonEmpty(a, b - 1)
             last == strip(sorted_subtitles[b].content)
         IN IF last = <<>> THEN before
            ELSE IF before = <<>> THEN last
            ELSE before \o <<" ">> \o last

\* C39: merge loses and invents no text and no time span: the result has
\* one entry per run of consecutive entries in start order, whose trimmed
\* content is the trimmed contents of the run's entries in that order
\* (joined by one space, entries that are blank adding nothing); the first
\* start of the result is the smallest start of the input and the starts of
\* the result do not decrease.
C39_MergeKeepsTextAndOrder ==
    (mpc = "done" /\ m_subtitles # <<>>) =>
        /\ Len(merged_subtitles) = Cardinality(RunStarts)
        /\ \A a \in RunStarts :
              strip(merged_subtitles[RunNumber(a)].content)
                  = JoinNonEmpty(a, RunEnd(a))
        /\ \A k \in DOMAIN m_subtitles :
              merged_subtitles[1].start <= m_subtitles[k].start
        /\ \E k \in DOMAIN m_subtitles :
              merged_subtitles[1].start = m_subtitles[k].start
        /\ \A j \in 1..(Len(merged_subtitles) - 1) :
              merged_subtitles[j].start <= merged_subtitles[j + 1].start

\* three entries given out of start order, one of them blank: the first two
\* in start order were merged, the third kept apart
C39_Witness ==
    /\ mpc = "done"
    /\ Len(m_subtitles) = 3
    /\ m_subtitles[1].start > m_subtitles[3].start
    /\ joins = {1}
    /\ Len(merged_subtitles) = 2
    /\ \E k \in 1..2 : strip(sorted_subtitles[k].content) = <<>>
    /\ strip(merged_subtitles[1].content) = <<"a">>

\* the fields of the formatted text
TextFields == split_fields(timestamp_text)

\* C40: for every non-negative duration of whole milliseconds, 24 hours and
\* more included, the formatted text is hours, minutes, seconds of at least
\* two digits and milliseconds of three, separated by ":", ":" and ",", with
\* minutes and seconds below 60 and milliseconds below 1000, and parsing the
\* text gives the duration back.
C40_TimestampRoundTrip ==
    /\ tpc \in {"formatted", "parsed"} =>
          /\ Len(TextFields) = 4
          /\ Len(TextFields[1]) >= 2
          /\ Len(TextFields[2]) = 2
          /\ Len(TextFields[3]) = 2
          /\ Len(TextFields[4]) = 3
          /\ \A k \in DOMAIN timestamp_text :
                IF k \in {Len(TextFields[1]) + 1, Len(TextFields[1]) + 4}
                THEN timestamp_text[k] = ":"
                ELSE IF k = Len(TextFields[1]) + 7
                THEN timestamp_text[k] = ","
                ELSE IsDigit(timestamp_text[k])
          /\ int(TextFields[2]) < 60
          /\ int(TextFields[3]) < 60
          /\ int(TextFields[4]) < 1000
    /\ tpc = "parsed" =>
          /\ ~timestamp_out.raised
          /\ timestamp_out.value = timestamp_in

\* 119:59:59,999 went through the round: more than four days, an hour field
\* of three digits
C40_Witness ==
    /\ tpc = "parsed"
    /\ timestamp_in.days >= 4
    /\ timestamp_text
          = <<"1", "1", "9", ":", "5", "9", ":", "5", "9", ",", "9", "9", "9">>
    /\ timestamp_out.value = timestamp_in

\* the lines of a content after Subtitle._clean_content
CleanLines(content) ==
    SelectSeq(stripped_lines(content), LAMBDA line : line # <<>>)

\* a line of the content after the first is an index line, and the line
\* after it begins with a timestamp
OpensBlock(content) ==
    \E m \in 2..(Len(CleanLines(content)) - 1) :
        /\ is_idx_chars(CleanLines(content)[m])
        /\ starts_ts(CleanLines(content)[m + 1])

\* parse(compose(entries, reindex=False)) has the length of the entries and
\* at every position the same start, end and normalised content
RoundTripHolds ==
    /\ ~parse_out.raised
    /\ Len(parse_out.subtitles) = Len(given_subtitles)
    /\ \A k \in DOMAIN given_subtitles :
          /\ parse_out.subtitles[k].start = given_subtitles[k].start
          /\ parse_out.subtitles[k].end = given_subtitles[k].end
          /\ _clean_content(parse_out.subtitles[k].content)
                = _clean_content(given_subtitles[k].content)

\* C31 as stated: for every entry sequence with millisecond timestamps and
\* non-empty content, parse(compose(entries, reindex=False)) has the same
\* length and per position the same (start, end, content), content compared
\* after per-line trimming and removal of blank lines.
C31_RoundTripAsStated ==
    (rpc = "parsed" /\ given_subtitles # <<>>) => RoundTripHolds

\* C31: the round trip holds for every entry sequence with non-negative
\* millisecond timestamps, a proprietary text of one line and non-empty
\* content in which no line after the first is an index line followed by a
\* line that begins with a timestamp.
C31_RoundTrip ==
    (/\ rpc = "parsed"
     /\ given_subtitles # <<>>
     /\ \A k \in DOMAIN given_subtitles :
           ~OpensBlock(given_subtitles[k].content)) => RoundTripHolds

\* two entries went through the round, one over a day long with a content
\* that needs the normalisation, one whose content begins with a number and
\* a timestamp line
C31_Witness ==
    /\ rpc = "parsed"
    /\ Len(given_subtitles) = 2
    /\ given_subtitles[1].content = BlockAtContentStart
    /\ given_subtitles[2].content = <<" ", "x", " ", NL, NL, " ", "y">>
    /\ given_subtitles[2].end.days = 1
    /\ Len(parse_out.subtitles) = 2
    /\ parse_out.subtitles[2].content = <<"x", NL, "y">>
    /\ parse_out.subtitles[1].index = 7

\* the stretches of a text between its matches: before the first, between
\* neighbours and after the last, each from the offset at which the next
\* match is expected to the offset at which it starts (or the text ends)
Gaps(srt, found) ==
    [k \in 1..(Len(found) + 1) |->
        [expected_start |-> IF k = 1 THEN 0 ELSE found[k - 1].end,
         actual_start |-> IF k > Len(found) THEN Len(srt)
                          ELSE found[k].start]]

\* the text of a gap
Unmatched(srt, gap) == SubSeq(srt, gap.expected_start + 1, gap.actual_start)

\* a gap that holds text, except one at offset 0 that is only whitespace or
\* is the byte-order mark
Offending(srt, gap) ==
    /\ gap.expected_start # gap.actual_start
    /\ ~(/\ gap.expected_start = 0
         /\ \/ \A c \in DOMAIN Unmatched(srt, gap) :
                  Unmatched(srt, gap)[c] \in {" ", NL}
            \/ Unmatched(srt, gap) = <<BOM>>)

\* C32: when the matched blocks of a text leave unmatched text before,
\* between or after them, parse raises the error with the expected offset,
\* the actual offset and the unmatched text of the first such gap, unless
\* ignore_errors is set; then, and when there is no such gap, it returns the
\* matched entries.  A gap at offset 0 that is only whitespace or is the
\* byte-order mark never raises.
C32_Continuity ==
    rpc = "parsed" =>
        LET found == matches(srt_data)
            gaps == Gaps(srt_data, found)
            offending == {k \in DOMAIN gaps : Offending(srt_data, gaps[k])}
        IN IF offending = {} \/ ignore_errors
           THEN /\ ~parse_out.raised
                /\ parse_out.subtitles
                      = [k \in DOMAIN found |-> found[k].subtitle]
           ELSE LET first == CHOOSE k \in offending :
                                 \A other \in offending : k <= other
                IN /\ parse_out.raised
                   /\ parse_out.expected_start = gaps[first].expected_start
                   /\ parse_out.actual_start = gaps[first].actual_start
                   /\ parse_out.unmatched_content
                         = Unmatched(srt_data, gaps[first])

\* a text behind a byte-order mark with a line between its two blocks that
\* begins with a timestamp and is no header: parse raised on the gap between
\* the blocks, the gap at offset 0 that is the mark did not raise
C32_Witness ==
    /\ rpc = "parsed"
    /\ ~ignore_errors
    /\ srt_data # <<>>
    /\ Head(srt_data) = BOM
    /\ Len(matches(srt_data)) = 2
    /\ matches(srt_data)[1].start = 1
    /\ parse_out.raised
    /\ parse_out.expected_start = matches(srt_data)[1].end
    /\ parse_out.actual_start = matches(srt_data)[2].start
    /\ parse_out.unmatched_content
          = _format_timestamp(timedelta(0, 0, 5, 0)) \o <<" ", "j">>

\* the (start, end, content) of the entries of every chunk
ChunkTriples(cs) == [c \in DOMAIN cs |-> Triples(cs[c])]

\* C34: in any sequence of runs, also after the input file was modified,
\* the chunks a run gets for an input path are
\* split(merge(parse(current text of the file)), max_tokens), whatever files
\* earlier runs left behind; the entries are compared by start, end and
\* content.
C34_ChunksFromCurrentInput ==
    [][split_calls' # split_calls =>
          /\ ~split_out'.raised
          /\ ChunkTriples(split_out'.chunks)
                = ChunkTriples(chunks_of(in_file, file_max_tokens))]_vars

====
